---- MODULE Spec2Model ----
(***************************************************************************)
(* A model of the santa-me overlay engine:                                 *)
(*   - FaceDetector.detect_faces   (src/app/face_detection.py)             *)
(*   - SantaHatProcessor           (src/app/image_processing.py)           *)
(* and of the HTTP layer around it:                                        *)
(*   - Config.validate_url_safety  (src/app/config.py)                     *)
(*   - S3Cache                     (src/app/s3_cache.py)                   *)
(*   - GET and POST /santa-hatify  (src/app/main.py)                       *)
(*                                                                         *)
(* Numbers.  The code computes with floats.  The model computes exactly    *)
(* with integers that count a fixed fraction of a pixel:                   *)
(*   - detector side: normalized landmark coordinates are n / LmDen and    *)
(*     pixel quantities count 1/(2*LmDen) pixel;                           *)
(*   - processor side: pixel quantities count 1/Q pixel, Q = 2*AnchorDen.  *)
(* A float that is not a number is the value FNaN.  The inputs are chosen  *)
(* so that the float operations of the code are exact on them (dyadic      *)
(* multipliers, overlay widths that are powers of two, quarter turns).     *)
(***************************************************************************)
EXTENDS Integers, Sequences, FiniteSets, TLC

VARIABLES
    \* ---- FaceDetector.detect_faces ----
    detImage,       \* [w, h] of the image handed to detect_faces
    detLandmarks,   \* results.multi_face_landmarks: a sequence of landmark sets
    detPc,          \* "idle" | "call" | "loop" | "returned" | "raised"
    detIdx,         \* position of the for loop over multi_face_landmarks
    detFaces,       \* the list `faces` built by the loop (the return value)
    detErr,         \* the exception that left detect_faces, or "none"
    \* ---- SantaHatProcessor ----
    hat_image,      \* self.hat_image
    positioning,    \* self.positioning
    heap,           \* image objects: object id -> image value (or NoImage)
    imageRef,       \* the caller's `image` argument (an object id)
    inputImage,     \* the value of the caller's image when process_image was called
    faces,          \* the `faces` argument
    hat_scale,      \* the `hat_scale` argument, counted in 1/Q
    pc,             \* "idle" | "call" | "loop" | "returned" | "raised"
    faceIdx,        \* position of the for loop over faces
    resultRef,      \* `result` of process_image (an object id), 0 before it is bound
    err,            \* the exception that left process_image, or "none"
    locals,         \* the locals of the last add_hat_to_face call, or NoLocals
    warnings,       \* the warning signals surfaced to the caller so far
    history,        \* the process_image calls made on this processor so far
    \* ---- the application (main.py) ----
    hat_processor,  \* the module global: "configured", or "none" (asset missing)
    s3_cache,       \* the S3Cache singleton and its bucket: [enabled, objects]
    pool,           \* the requests clients may send
    budget,         \* how many more requests will be received
    request,        \* the request being handled, or NoRequest
    rpc,            \* the handler's position
    frame,          \* the handler's locals
    calls,          \* what the handler has called so far, in order
    response        \* the response sent for the request, or NoResponse

detVars == <<detImage, detLandmarks, detPc, detIdx, detFaces, detErr>>
procVars == <<hat_image, positioning, heap, imageRef, inputImage, faces,
              hat_scale, pc, faceIdx, resultRef, err, locals, warnings, history>>
srvVars == <<hat_processor, s3_cache, pool, budget, request, rpc, frame, calls,
             response>>
vars == <<detVars, procVars, srvVars>>

(***************************************************************************)
(* Bounds of the model.                                                    *)
(***************************************************************************)
LmDen == 2          \* landmark coordinates are n / LmDen, n \in 0..LmDen
MaxDetFaces == 1    \* landmark sets per detect_faces call
AnchorDen == 2      \* anchor coordinates are k / AnchorDen, k \in 0..AnchorDen
MaxFaces == 2       \* faces per process_image call
MaxCalls == 3       \* process_image calls made on one processor

(***************************************************************************)
(* Floats of the detector: a number (counted in some unit) or NaN.         *)
(***************************************************************************)
FNum(n) == [nan |-> FALSE, v |-> n]
FNaN == [nan |-> TRUE, v |-> 0]
FAbsInt(n) == IF n < 0 THEN -n ELSE n
FMulInt(a, k) == IF a.nan THEN FNaN ELSE FNum(a.v * k)
FAdd(a, b) == IF a.nan \/ b.nan THEN FNaN ELSE FNum(a.v + b.v)
FSub(a, b) == IF a.nan \/ b.nan THEN FNaN ELSE FNum(a.v - b.v)
FAbs(a) == IF a.nan THEN FNaN ELSE FNum(FAbsInt(a.v))
\* a / 2; every detector pixel quantity is an even count of DetUnit
FHalf(a) == IF a.nan THEN FNaN ELSE FNum(a.v \div 2)

(***************************************************************************)
(* MediaPipe Face Mesh landmark indices used by detect_faces.              *)
(***************************************************************************)
IdxForeheadTop == 10
IdxForeheadLeft == 109
IdxForeheadRight == 338
IdxChin == 151
IdxLeftEye == 33
IdxRightEye == 263
\* the number of landmarks of one face in the detector's scheme
SchemeCount == 468

RequiredIdx == {IdxForeheadTop, IdxForeheadLeft, IdxForeheadRight, IdxChin,
                IdxLeftEye, IdxRightEye}

\* a landmark: normalized coordinates, numerators over LmDen
Landmark(x, y) == [x |-> x, y |-> y]
Pt(nx, ny) == Landmark(FNum(nx), FNum(ny))

(***************************************************************************)
(* One face's landmark list: its length and its entries at the six indices *)
(* the code reads (the other entries only feed 'all_landmarks').           *)
(***************************************************************************)
LandmarkSet(n, ft, fl, fr, ch, le, re) ==
    [count |-> n, forehead_top |-> ft, forehead_left |-> fl,
     forehead_right |-> fr, chin |-> ch, left_eye |-> le, right_eye |-> re]

\* np.degrees(np.arctan2(dy, dx)): the angle is enclosed in [lo, hi] degrees,
\* exactly (lo = hi) on the axes and strictly inside an open quadrant otherwise.
Angle(lo, hi) == [nan |-> FALSE, lo |-> lo, hi |-> hi]
AngleNaN == [nan |-> TRUE, lo |-> 0, hi |-> 0]
\* the enclosure of atan2(y, x) in degrees, for numbers y and x
AngleOf(y, x) ==
    IF y = 0 THEN (IF x >= 0 THEN Angle(0, 0) ELSE Angle(180, 180))
    ELSE IF x = 0 THEN (IF y > 0 THEN Angle(90, 90) ELSE Angle(-90, -90))
    ELSE IF y > 0 THEN (IF x > 0 THEN Angle(0, 90) ELSE Angle(90, 180))
    ELSE (IF x > 0 THEN Angle(-90, 0) ELSE Angle(-180, -90))
\* a variant of line 95 with the arguments swapped: np.arctan2(dx, dy)
ArcTan2DegreesSwapped(dy, dx) ==
    IF dy.nan \/ dx.nan THEN AngleNaN ELSE AngleOf(dx.v, dy.v)
\* a variant of line 95 for a y axis that points up: np.arctan2(-dy, dx)
ArcTan2DegreesNegated(dy, dx) ==
    IF dy.nan \/ dx.nan THEN AngleNaN ELSE AngleOf(-dy.v, dx.v)
ArcTan2Degrees(dy, dx) ==
    IF dy.nan \/ dx.nan THEN AngleNaN
    ELSE IF dy.v = 0 THEN (IF dx.v >= 0 THEN Angle(0, 0) ELSE Angle(180, 180))
    ELSE IF dx.v = 0 THEN (IF dy.v > 0 THEN Angle(90, 90) ELSE Angle(-90, -90))
    ELSE IF dy.v > 0 THEN (IF dx.v > 0 THEN Angle(0, 90) ELSE Angle(90, 180))
    ELSE (IF dx.v > 0 THEN Angle(-90, 0) ELSE Angle(-180, -90))

\* normalized coordinate * image dimension, counted in 1/(2*LmDen) pixel
ToPixel(c, dim) == FMulInt(c, 2 * dim)
PixelPoint(lm, img) == [x |-> ToPixel(lm.x, img.w), y |-> ToPixel(lm.y, img.h)]

\* eye_distance = abs(eye_right_px['x'] - eye_left_px['x'])
EyeDistance(eye_left_px, eye_right_px) == FAbs(FSub(eye_right_px.x, eye_left_px.x))

\* forehead_width = abs(forehead_right_px['x'] - forehead_left_px['x'])
ForeheadWidth(forehead_left_px, forehead_right_px) ==
    FAbs(FSub(forehead_right_px.x, forehead_left_px.x))

\* the dictionary appended to `faces` for one landmark set
FaceMeasurement(lms, img) ==
    LET forehead_top_px == PixelPoint(lms.forehead_top, img)
        forehead_left_px == PixelPoint(lms.forehead_left, img)
        forehead_right_px == PixelPoint(lms.forehead_right, img)
        eye_left_px == PixelPoint(lms.left_eye, img)
        eye_right_px == PixelPoint(lms.right_eye, img)
        eye_distance == EyeDistance(eye_left_px, eye_right_px)
        dx == FSub(eye_right_px.x, eye_left_px.x)
        dy == FSub(eye_right_px.y, eye_left_px.y)
    IN [forehead_top |-> forehead_top_px,
        eye_midpoint |-> [x |-> FHalf(FAdd(eye_left_px.x, eye_right_px.x)),
                          y |-> FHalf(FAdd(eye_left_px.y, eye_right_px.y))],
        eye_distance |-> eye_distance,
        forehead_width |-> ForeheadWidth(forehead_left_px, forehead_right_px),
        angle |-> ArcTan2Degrees(dy, dx),
        head_width |-> FMulInt(eye_distance, 2)]

\* landmarks[i] raises IndexError when i is not below the length of the list
IndexInRange(lms) == \A i \in RequiredIdx : i < lms.count

(***************************************************************************)
(* Inputs of detect_faces.                                                 *)
(***************************************************************************)
DetImages == {[w |-> 4, h |-> 2], [w |-> 3, h |-> 3]}
Grid == 0..LmDen
RightEyes == {Pt(nx, ny) : nx \in Grid, ny \in Grid} \cup {Landmark(FNaN, FNum(1))}
ForeheadRights == {Pt(LmDen, 0), Pt(LmDen, 1), Pt(0, 1), Pt(0, 0),
                   Landmark(FNum(LmDen), FNaN)}
Counts == {IdxForeheadRight, SchemeCount, SchemeCount + 1}
LandmarkSets ==
    {LandmarkSet(n, Pt(1, 0), Pt(0, 0), fr, Pt(1, LmDen), Pt(1, 1), re) :
        n \in Counts, fr \in ForeheadRights, re \in RightEyes}

RECURSIVE SeqsUpTo(_, _)
SeqsUpTo(S, n) ==
    IF n = 0 THEN {<<>>}
    ELSE LET shorter == SeqsUpTo(S, n - 1)
         IN shorter \cup {Append(s, e) : s \in {t \in shorter : Len(t) = n - 1}, e \in S}

(***************************************************************************)
(* SantaHatProcessor.  Pixel quantities count 1/Q pixel; width_multiplier  *)
(* and hat_scale count 1/Q as well.                                        *)
(***************************************************************************)
Q == 2 * AnchorDen

\* int(n / d) for d > 0: Python's int() truncates toward zero
TruncDiv(n, d) == IF n >= 0 THEN n \div d ELSE -((-n) \div d)

\* ImagingUtils.h of the imaging library: division by 255 with rounding
ShiftForDiv255(a) == ((a \div 256) + a) \div 256
Div255(a) == ShiftForDiv255(a + 128)
MulDiv255(a, b) == Div255(a * b)
Clip8(a) == IF a > 255 THEN 255 ELSE IF a < 0 THEN 0 ELSE a

PixelsOf(w, h) == (0..(w - 1)) \X (0..(h - 1))
\* Image.new(mode, (w, h), colour)
NewImage(mode, w, h, colour) ==
    [mode |-> mode, w |-> w, h |-> h, px |-> [p \in PixelsOf(w, h) |-> colour]]

\* one pixel converted to RGBA from mode m
PixelToRGBA(m, c) ==
    IF m = "RGBA" THEN c
    ELSE IF m = "RGB" THEN <<c[1], c[2], c[3], 255>>
    ELSE <<c[1], c[1], c[1], 255>>

\* image.convert("RGBA"): always a new image
ConvertRGBA(im) ==
    [mode |-> "RGBA", w |-> im.w, h |-> im.h,
     px |-> [p \in PixelsOf(im.w, im.h) |-> PixelToRGBA(im.mode, im.px[p])]]

\* the resampling filters work on premultiplied alpha: RGBA -> RGBa -> RGBA
Premultiply(c) == <<MulDiv255(c[1], c[4]), MulDiv255(c[2], c[4]), MulDiv255(c[3], c[4]), c[4]>>
Unpremultiply(c) ==
    IF c[4] = 255 \/ c[4] = 0 THEN c
    ELSE <<Clip8((255 * c[1]) \div c[4]), Clip8((255 * c[2]) \div c[4]),
           Clip8((255 * c[3]) \div c[4]), c[4]>>

\* self.hat_image.resize((w, h), LANCZOS): the library refuses an empty size
ResizeRaises(w, h) == w < 1 \/ h < 1
\* the overlay assets of the model are of one colour, which resampling keeps
Resize(im, w, h) ==
    IF im.w = w /\ im.h = h THEN im
    ELSE NewImage(im.mode, w, h, Unpremultiply(Premultiply(im.px[<<0, 0>>])))

\* degrees that are a multiple of 90, reduced to 0, 90, 180, 270
Mod360(d) == d % 360
CosDeg(d) == CASE Mod360(d) = 0 -> 1 [] Mod360(d) = 180 -> -1 [] OTHER -> 0
SinDeg(d) == CASE Mod360(d) = 90 -> 1 [] Mod360(d) = 270 -> -1 [] OTHER -> 0

\* im.rotate(d, expand=True) for d a multiple of 90: a transposition.
\* The library turns the bitmap counter clockwise by d degrees.
Rotate(im, d) ==
    CASE Mod360(d) = 0 -> im
      [] Mod360(d) = 180 ->
            [im EXCEPT !.px = [p \in PixelsOf(im.w, im.h) |->
                                 im.px[<<im.w - 1 - p[1], im.h - 1 - p[2]>>]]]
      [] Mod360(d) = 90 ->
            [mode |-> im.mode, w |-> im.h, h |-> im.w,
             px |-> [p \in PixelsOf(im.h, im.w) |-> im.px[<<im.w - 1 - p[2], p[1]>>]]]
      [] OTHER ->
            [mode |-> im.mode, w |-> im.h, h |-> im.w,
             px |-> [p \in PixelsOf(im.h, im.w) |-> im.px[<<p[2], im.h - 1 - p[1]>>]]]

\* where rotate(d, expand=True) puts the point pt of a w x h bitmap (1/Q pixel):
\* counter clockwise by d about the centre, then centred in the expanded canvas
RotatePoint(pt, w, h, d) ==
    LET rx == pt.x - w * AnchorDen
        ry == pt.y - h * AnchorDen
        nw == IF Mod360(d) \in {90, 270} THEN h ELSE w
        nh == IF Mod360(d) \in {90, 270} THEN w ELSE h
    IN [x |-> rx * CosDeg(d) + ry * SinDeg(d) + nw * AnchorDen,
        y |-> ry * CosDeg(d) - rx * SinDeg(d) + nh * AnchorDen]

\* lines 73-81
ReferenceWidth(pos, face) ==
    IF pos.width_reference = "eye_distance" THEN face.eye_distance
    ELSE IF pos.width_reference = "forehead_width" THEN face.forehead_width
    ELSE face.eye_distance

\* n / d rounded to the nearest integer, halves away from zero (d > 0)
RoundDiv(n, d) == IF n >= 0 THEN (2 * n + d) \div (2 * d) ELSE -((2 * (-n) + d) \div (2 * d))

\* a variant of line 84 that rounds: round(reference_width * width_multiplier * hat_scale)
HatWidthRounded(reference_width, pos, scale) ==
    RoundDiv(reference_width * pos.width_multiplier * scale, Q * Q * Q)

\* a variant of line 84 that leaves hat_scale out: int(reference_width * width_multiplier)
HatWidthIgnoresScale(reference_width, pos, scale) ==
    TruncDiv(reference_width * pos.width_multiplier, Q * Q)

\* line 84: int(reference_width * width_multiplier * hat_scale)
HatWidth(reference_width, pos, scale) ==
    TruncDiv(reference_width * pos.width_multiplier * scale, Q * Q * Q)

\* lines 87-88: int(hat_width * (hat.height / hat.width))
HatHeight(hat_width, hat) == TruncDiv(hat_width * hat.h, hat.w)

\* lines 108-109, in 1/Q pixel
AnchorOnHat(resized, pos) ==
    [x |-> resized.w * pos.hat_anchor_point.x * 2,
     y |-> resized.h * pos.hat_anchor_point.y * 2]

\* lines 113-127: the anchor turned by radians(-angle) about the centre
RotatedAnchor(anchor, resized, rotated, angle) ==
    LET cos_a == CosDeg(-angle)
        sin_a == SinDeg(-angle)
        rel_x == anchor.x - resized.w * AnchorDen
        rel_y == anchor.y - resized.h * AnchorDen
        rotated_rel_x == rel_x * cos_a - rel_y * sin_a
        rotated_rel_y == rel_x * sin_a + rel_y * cos_a
    IN [x |-> rotated_rel_x + rotated.w * AnchorDen,
        y |-> rotated_rel_y + rotated.h * AnchorDen]

\* lines 130-136
TargetX(pos, face) ==
    IF pos.horizontal_center = "midpoint_between_eyes" THEN face.eye_midpoint.x
    ELSE IF pos.horizontal_center = "forehead_top" THEN face.forehead_top.x
    ELSE face.eye_midpoint.x

\* lines 138-146
TargetY(pos, face) ==
    (IF pos.vertical_anchor = "forehead_top" THEN face.forehead_top.y
     ELSE face.forehead_top.y) + pos.vertical_offset_px * Q

\* a variant of lines 149-150 that floors: math.floor(target - rotated_anchor)
PlacementOffsetFloor(target, rotated_anchor) == (target - rotated_anchor) \div Q

\* lines 149-150: int(target - rotated_anchor)
PlacementOffset(target, rotated_anchor) == TruncDiv(target - rotated_anchor, Q)

\* ImagingPaste with an RGBA matte: every band blended by the matte's alpha
Blend8(mask, in1, in2) == Div255(in1 * (255 - mask) + in2 * mask)
PastePixel(out, in) == [i \in 1..4 |-> Blend8(in[4], out[i], in[i])]
\* a paste that moves a negative offset to 0 instead of clipping
PasteClamped(layer, im, x, y) ==
    LET cx == IF x < 0 THEN 0 ELSE x
        cy == IF y < 0 THEN 0 ELSE y
    IN [layer EXCEPT !.px =
        [p \in PixelsOf(layer.w, layer.h) |->
            LET s == <<p[1] - cx, p[2] - cy>>
            IN IF s \in PixelsOf(im.w, im.h)
               THEN PastePixel(layer.px[p], im.px[s])
               ELSE layer.px[p]]]

\* layer.paste(im, (x, y), im): clipped to the layer
Paste(layer, im, x, y) ==
    [layer EXCEPT !.px =
        [p \in PixelsOf(layer.w, layer.h) |->
            LET s == <<p[1] - x, p[2] - y>>
            IN IF s \in PixelsOf(im.w, im.h)
               THEN PastePixel(layer.px[p], im.px[s])
               ELSE layer.px[p]]]

\* ImagingAlphaComposite: src over dst, one pixel
CompositePixel(dst, src) ==
    IF src[4] = 0 THEN dst
    ELSE LET blend == dst[4] * (255 - src[4])
             outa255 == src[4] * 255 + blend
             coef1 == (src[4] * 255 * 255 * 128) \div outa255
             coef2 == 255 * 128 - coef1
             band(i) == ShiftForDiv255(src[i] * coef1 + dst[i] * coef2 + 128 * 128) \div 128
         IN <<band(1), band(2), band(3), ShiftForDiv255(outa255 + 128)>>

\* Image.alpha_composite(im1, im2) raises unless both are RGBA of one size
CompositeRaises(im1, im2) ==
    im1.mode # "RGBA" \/ im2.mode # "RGBA" \/ im1.w # im2.w \/ im1.h # im2.h
\* a variant of line 157 that drops the alpha band: alpha_composite(...).convert("RGB")
AlphaCompositeRGB(im1, im2) ==
    [mode |-> "RGB", w |-> im1.w, h |-> im1.h,
     px |-> [p \in PixelsOf(im1.w, im1.h) |->
                LET c == CompositePixel(im1.px[p], im2.px[p]) IN <<c[1], c[2], c[3]>>]]

\* Image.alpha_composite(im1, im2): a new image
AlphaComposite(im1, im2) ==
    [mode |-> "RGBA", w |-> im1.w, h |-> im1.h,
     px |-> [p \in PixelsOf(im1.w, im1.h) |-> CompositePixel(im1.px[p], im2.px[p])]]

NoImage == [mode |-> "none"]
NoRequest == [n |-> 0, req |-> [method |-> "none"]]
NoResponse == [status |-> 0]
NoFrame == [entered |-> FALSE]

\* no application is running
SrvIdle ==
    /\ hat_processor = "none"
    /\ s3_cache = [enabled |-> FALSE, objects |-> {}]
    /\ pool = {}
    /\ budget = 0
    /\ request = NoRequest
    /\ rpc = "idle"
    /\ frame = NoFrame
    /\ calls = <<>>
    /\ response = NoResponse
NoLocals == [called |-> FALSE, placed |-> FALSE]

ProcIdle ==
    /\ hat_image = NoImage
    /\ positioning = [none |-> TRUE]
    /\ heap = <<>>
    /\ imageRef = 0
    /\ inputImage = NoImage
    /\ faces = <<>>
    /\ hat_scale = 0
    /\ pc = "idle"
    /\ faceIdx = 0
    /\ resultRef = 0
    /\ err = "none"
    /\ locals = NoLocals
    /\ warnings = <<>>
    /\ history = <<>>

InitDetect ==
    /\ detImage \in DetImages
    /\ detLandmarks \in SeqsUpTo(LandmarkSets, MaxDetFaces)
    /\ detPc = "call"
    /\ detIdx = 0
    /\ detFaces = <<>>
    /\ detErr = "none"
    /\ ProcIdle
    /\ SrvIdle

\* lines 29-38: process the image; no landmarks -> return []
DetectEnter ==
    /\ detPc = "call"
    /\ IF detLandmarks = <<>>
       THEN detPc' = "returned" /\ detIdx' = 0
       ELSE detPc' = "loop" /\ detIdx' = 1
    /\ UNCHANGED <<detImage, detLandmarks, detFaces, detErr, procVars, srvVars>>

\* lines 40-111: one iteration of the loop over multi_face_landmarks
DetectFace ==
    /\ detPc = "loop"
    /\ detIdx <= Len(detLandmarks)
    /\ LET lms == detLandmarks[detIdx]
       IN IF ~IndexInRange(lms)
          THEN /\ detPc' = "raised"
               /\ detErr' = "IndexError"
               /\ UNCHANGED <<detIdx, detFaces>>
          ELSE /\ detFaces' = Append(detFaces, FaceMeasurement(lms, detImage))
               /\ detIdx' = detIdx + 1
               /\ UNCHANGED <<detPc, detErr>>
    /\ UNCHANGED <<detImage, detLandmarks, procVars, srvVars>>

\* line 113: return faces
DetectReturn ==
    /\ detPc = "loop"
    /\ detIdx > Len(detLandmarks)
    /\ detPc' = "returned"
    /\ UNCHANGED <<detImage, detLandmarks, detIdx, detFaces, detErr, procVars,
                   srvVars>>

NextDetect == DetectEnter \/ DetectFace \/ DetectReturn

SpecDetect == InitDetect /\ [][NextDetect]_vars

(***************************************************************************)
(* Inputs of the processor.                                                *)
(***************************************************************************)
Positioning(wr, wm, ax, ay, hc, va, off) ==
    [width_reference |-> wr, width_multiplier |-> wm,
     hat_anchor_point |-> [x |-> ax, y |-> ay],
     horizontal_center |-> hc, vertical_anchor |-> va, vertical_offset_px |-> off]

\* _default_positioning(), with the anchor (0.5, 0.95) on the model's anchor grid
\* as (AnchorDen \div 2, AnchorDen) / AnchorDen
DefaultPositioning ==
    Positioning("eye_distance", 2 * Q, AnchorDen \div 2, AnchorDen,
                "midpoint_between_eyes", "forehead_top", 30)

\* positioning blocks of a metadata file beside the overlay
Positionings ==
    {DefaultPositioning}
    \cup {Positioning("eye_distance", 2 * Q, ax, ay,
                      "midpoint_between_eyes", "forehead_top", 0) :
            ax \in 0..AnchorDen, ay \in 0..AnchorDen}
    \cup {Positioning(wr, Q + 1, AnchorDen, AnchorDen, hc, va, 1) :
            wr \in {"forehead_width", "head_width"},
            hc \in {"forehead_top", "nose"},
            va \in {"forehead_top", "chin"}}

Red == <<200, 0, 0, 255>>
Green == <<0, 160, 0, 255>>
HalfRed == <<200, 0, 0, 128>>
\* a 2x1 bitmap, red on the left and green on the right
TwoTone ==
    [mode |-> "RGBA", w |-> 2, h |-> 1,
     px |-> [p \in PixelsOf(2, 1) |-> IF p[1] = 0 THEN Red ELSE Green]]
HatImages ==
    {NewImage("RGBA", 2, 1, Red), NewImage("RGBA", 4, 3, Red),
     NewImage("RGBA", 2, 1, HalfRed), TwoTone}

InputImages ==
    {NewImage("RGB", 4, 3, <<255, 200, 150>>),
     NewImage("RGBA", 4, 3, <<255, 200, 150, 255>>),
     NewImage("L", 3, 4, <<128>>)}

\* hat_scale: 1.0 and 1.5
HatScales == {Q, Q + AnchorDen}

Face(tx, ty, mx, my, ed, fw, a) ==
    [forehead_top |-> [x |-> tx, y |-> ty], eye_midpoint |-> [x |-> mx, y |-> my],
     eye_distance |-> ed, forehead_width |-> fw, angle |-> a]

\* face dictionaries, lengths in 1/Q pixel, angles in degrees
FaceSet ==
    {Face(2 * Q, Q, 2 * Q + 1, 2 * Q, Q, 2 * Q, 0),
     Face(Q + 1, Q - 1, 1, Q, Q + AnchorDen, Q, 90),
     Face(2 * Q, 2 * Q, 2 * Q, 2 * Q, 0, Q + AnchorDen, -90),
     Face(3 * Q, 2 * Q, 3 * Q + 1, 2 * Q, 2 * Q, Q + AnchorDen, 180),
     Face(2 * Q, Q, 2 * Q, 2 * Q, Q, 2 * Q, 180)}

\* the bitmap has one colour throughout
Uniform(im) == \A p, q \in DOMAIN im.px : im.px[p] = im.px[q]
\* every resize of the call is one whose pixels Resize gives: of a
\* one-coloured bitmap, or to the bitmap's own size, or refused
Resamples(hat, pos, fs, scale) ==
    IF Uniform(hat) THEN TRUE
    ELSE \A k \in 1..Len(fs) :
            LET hat_width == HatWidth(ReferenceWidth(pos, fs[k]), pos, scale)
                hat_height == HatHeight(hat_width, hat)
            IN \/ ResizeRaises(hat_width, hat_height)
               \/ (hat_width = hat.w /\ hat_height = hat.h)

DetIdle ==
    /\ detImage = [w |-> 0, h |-> 0]
    /\ detLandmarks = <<>>
    /\ detPc = "idle"
    /\ detIdx = 0
    /\ detFaces = <<>>
    /\ detErr = "none"

\* a constructed processor and the arguments of one process_image call
InitProcess ==
    /\ hat_image \in HatImages
    /\ positioning \in Positionings
    /\ inputImage \in InputImages
    /\ heap = <<inputImage>>
    /\ imageRef = 1
    /\ faces \in SeqsUpTo(FaceSet, MaxFaces)
    /\ hat_scale \in HatScales
    /\ Resamples(hat_image, positioning, faces, hat_scale)
    /\ pc = "call"
    /\ faceIdx = 0
    /\ resultRef = 0
    /\ err = "none"
    /\ locals = NoLocals
    /\ warnings = <<>>
    /\ history = <<>>
    /\ DetIdle
    /\ SrvIdle

\* a variant of lines 178-180 that converts: `return image.convert("RGBA")`
ReturnConverted(h, ref) == [heap |-> Append(h, ConvertRGBA(h[ref])), ref |-> Len(h) + 1]

\* lines 178-180: `if not faces: return image`
ReturnOriginal(h, ref) == [heap |-> h, ref |-> ref]

\* a variant of line 183 that converts only when needed:
\* `result = image if image.mode == "RGBA" else image.convert("RGBA")`
ConvertInputIfNeeded(h, ref) ==
    IF h[ref].mode = "RGBA" THEN [heap |-> h, ref |-> ref]
    ELSE [heap |-> Append(h, ConvertRGBA(h[ref])), ref |-> Len(h) + 1]

\* line 183: `result = image.convert("RGBA")`
ConvertInput(h, ref) == [heap |-> Append(h, ConvertRGBA(h[ref])), ref |-> Len(h) + 1]

\* lines 178-183 of process_image
ProcessImageEnter ==
    /\ pc = "call"
    /\ IF faces = <<>>
       THEN LET r == ReturnOriginal(heap, imageRef)
            IN heap' = r.heap /\ resultRef' = r.ref /\ pc' = "returned" /\ faceIdx' = 0
       ELSE LET r == ConvertInput(heap, imageRef)
            IN heap' = r.heap /\ resultRef' = r.ref /\ pc' = "loop" /\ faceIdx' = 1
    /\ UNCHANGED <<hat_image, positioning, imageRef, inputImage, faces, hat_scale,
                   err, locals, warnings, history, detVars, srvVars>>

\* lines 153-154: a transparent layer of the image's size with the hat pasted in
HatLayer(image, rotated_hat, hat_x, hat_y) ==
    Paste(NewImage("RGBA", image.w, image.h, <<0, 0, 0, 0>>), rotated_hat, hat_x, hat_y)

\* a variant of lines 91-94 that resizes the asset in place:
\* `self.hat_image = self.hat_image.resize(...)`
HatAfterCallResized(hat, resized_hat) == resized_hat

\* lines 91-94: `resized_hat = self.hat_image.resize(...)` binds a local;
\* self.hat_image after the call is what it was
HatAfterCall(hat, resized_hat) == hat

\* lines 79-81, 135-136, 141-142: the fallback branches only assign the
\* default; the warnings they surface to the caller
FallbackWarnings(pos) == <<>>

\* add_hat_to_face(image, face_data, hat_scale): its locals and what it returns
AddHatToFaceCall(hat, pos, image0, face_data, scale) ==
    LET image == IF image0.mode # "RGBA" THEN ConvertRGBA(image0) ELSE image0
        reference_width == ReferenceWidth(pos, face_data)
        hat_width == HatWidth(reference_width, pos, scale)
        hat_height == HatHeight(hat_width, hat)
    IN IF ResizeRaises(hat_width, hat_height)
       THEN [raised |-> "ValueError",
             locals |-> [called |-> TRUE, placed |-> FALSE, face_data |-> face_data,
                         reference_width |-> reference_width,
                         hat_width |-> hat_width, hat_height |-> hat_height],
             result |-> NoImage, hat |-> hat, warnings |-> FallbackWarnings(pos)]
       ELSE LET resized_hat == Resize(hat, hat_width, hat_height)
                rotated_hat == Rotate(resized_hat, -face_data.angle)
                anchor == AnchorOnHat(resized_hat, pos)
                rotated_anchor == RotatedAnchor(anchor, resized_hat, rotated_hat,
                                                face_data.angle)
                target_x == TargetX(pos, face_data)
                target_y == TargetY(pos, face_data)
                hat_x == PlacementOffset(target_x, rotated_anchor.x)
                hat_y == PlacementOffset(target_y, rotated_anchor.y)
                hat_layer == HatLayer(image, rotated_hat, hat_x, hat_y)
            IN [raised |-> IF CompositeRaises(image, hat_layer)
                           THEN "ValueError" ELSE "none",
                locals |-> [called |-> TRUE, placed |-> TRUE, face_data |-> face_data,
                            reference_width |-> reference_width,
                            hat_width |-> hat_width, hat_height |-> hat_height,
                            resized |-> [w |-> resized_hat.w, h |-> resized_hat.h],
                            rotated |-> [w |-> rotated_hat.w, h |-> rotated_hat.h],
                            anchor |-> anchor, rotated_anchor |-> rotated_anchor,
                            target |-> [x |-> target_x, y |-> target_y],
                            hat_x |-> hat_x, hat_y |-> hat_y],
                result |-> AlphaComposite(image, hat_layer),
                hat |-> HatAfterCall(hat, resized_hat),
                warnings |-> FallbackWarnings(pos)]

\* the position a face has when the faces are ordered by eye_midpoint.x
SortRank(fs, j) ==
    Cardinality({k \in 1..Len(fs) :
                    \/ fs[k].eye_midpoint.x < fs[j].eye_midpoint.x
                    \/ (fs[k].eye_midpoint.x = fs[j].eye_midpoint.x /\ k < j)}) + 1
\* a variant of line 186 that orders the faces: `for face in sorted(faces, ...)`
FaceAtSorted(fs, i) == fs[CHOOSE j \in 1..Len(fs) : SortRank(fs, j) = i]
\* a variant of line 186 that walks the list backwards: `for face in reversed(faces)`
FaceAtReversed(fs, i) == fs[Len(fs) + 1 - i]

\* line 186: `for face in faces`, the face of iteration i
FaceAt(fs, i) == fs[i]

\* lines 186-189: the iterations from face i on; what process_image returns
RECURSIVE RunFaces(_, _, _, _, _, _)
RunFaces(hat, pos, image, fs, scale, i) ==
    IF i > Len(fs)
    THEN [raised |-> "none", result |-> image, hat |-> hat]
    ELSE LET r == AddHatToFaceCall(hat, pos, image, FaceAt(fs, i), scale)
         IN IF r.raised # "none"
            THEN [raised |-> r.raised, result |-> NoImage, hat |-> r.hat]
            ELSE RunFaces(r.hat, pos, r.result, fs, scale, i + 1)

\* process_image(image, faces, hat_scale) as one step: the exception or the
\* returned image, and self.hat_image afterwards
ProcessImage(hat, pos, image, fs, scale) ==
    IF fs = <<>>
    THEN [raised |-> "none", result |-> image, hat |-> hat]
    ELSE RunFaces(hat, pos, ConvertRGBA(image), fs, scale, 1)

\* lines 186-187: one iteration, `result = self.add_hat_to_face(result, face, hat_scale)`
AddHatToFace ==
    /\ pc = "loop"
    /\ faceIdx <= Len(faces)
    /\ LET r == AddHatToFaceCall(hat_image, positioning, heap[resultRef],
                                 FaceAt(faces, faceIdx), hat_scale)
       IN /\ locals' = r.locals
          /\ hat_image' = r.hat
          /\ warnings' = warnings \o r.warnings
          /\ IF r.raised # "none"
             THEN /\ pc' = "raised"
                  /\ err' = r.raised
                  /\ UNCHANGED <<heap, resultRef, faceIdx>>
             ELSE /\ heap' = Append(heap, r.result)
                  /\ resultRef' = Len(heap) + 1
                  /\ faceIdx' = faceIdx + 1
                  /\ UNCHANGED <<pc, err>>
    /\ UNCHANGED <<positioning, imageRef, inputImage, faces, hat_scale, history,
                   detVars, srvVars>>

\* line 189: `return result`
ProcessImageReturn ==
    /\ pc = "loop"
    /\ faceIdx > Len(faces)
    /\ pc' = "returned"
    /\ UNCHANGED <<hat_image, positioning, heap, imageRef, inputImage, faces,
                   hat_scale, faceIdx, resultRef, err, locals, warnings, history,
                   detVars, srvVars>>

NextProcess == ProcessImageEnter \/ AddHatToFace \/ ProcessImageReturn

SpecProcess == InitProcess /\ [][NextProcess]_vars

(***************************************************************************)
(* One processor serving several process_image calls, each call one step.  *)
(***************************************************************************)
\* the positioning blocks of the processors that serve several calls
CallPositionings ==
    {Positioning("eye_distance", 2 * Q, AnchorDen, AnchorDen,
                 "midpoint_between_eyes", "forehead_top", 0),
     Positioning("head_width", Q + 1, AnchorDen, AnchorDen, "nose", "chin", 1)}

CallArg(image, fs, scale) == [image |-> image, faces |-> fs, hat_scale |-> scale]
\* the arguments of the calls
CallArgs ==
    LET rgb == NewImage("RGB", 4, 3, <<255, 200, 150>>)
        grey == NewImage("L", 3, 4, <<128>>)
        a == Face(2 * Q, Q, 2 * Q + 1, 2 * Q, Q, 2 * Q, 0)
        b == Face(2 * Q, Q, 2 * Q, 2 * Q, Q, 2 * Q, 180)
        c == Face(2 * Q, 2 * Q, 2 * Q, 2 * Q, 0, Q + AnchorDen, -90)
    IN {CallArg(rgb, <<>>, Q), CallArg(rgb, <<a>>, Q), CallArg(rgb, <<b, a>>, Q),
        CallArg(grey, <<a>>, Q), CallArg(rgb, <<a>>, Q + AnchorDen),
        CallArg(grey, <<a, c>>, Q)}

\* a constructed processor that has served no call yet
InitCalls ==
    /\ hat_image \in HatImages
    /\ positioning \in CallPositionings
    /\ history = <<>>
    /\ heap = <<>>
    /\ imageRef = 0
    /\ inputImage = NoImage
    /\ faces = <<>>
    /\ hat_scale = 0
    /\ pc = "idle"
    /\ faceIdx = 0
    /\ resultRef = 0
    /\ err = "none"
    /\ locals = NoLocals
    /\ warnings = <<>>
    /\ DetIdle
    /\ SrvIdle

\* lines 165-189: one whole process_image call on the processor
ProcessImageCall ==
    /\ Len(history) < MaxCalls
    /\ \E arg \in CallArgs :
          /\ Resamples(hat_image, positioning, arg.faces, arg.hat_scale)
          /\ LET r == ProcessImage(hat_image, positioning, arg.image, arg.faces,
                                   arg.hat_scale)
             IN /\ history' = Append(history,
                                     [hat_image |-> hat_image,
                                      positioning |-> positioning,
                                      arg |-> arg,
                                      raised |-> r.raised, result |-> r.result])
                /\ hat_image' = r.hat
    /\ UNCHANGED <<positioning, heap, imageRef, inputImage, faces, hat_scale, pc,
                   faceIdx, resultRef, err, locals, warnings, detVars, srvVars>>

NextCalls == ProcessImageCall

SpecCalls == InitCalls /\ [][NextCalls]_vars

(***************************************************************************)
(* Strings are sequences of characters.                                    *)
(***************************************************************************)
LowerOf ==
    ("A" :> "a") @@ ("B" :> "b") @@ ("C" :> "c") @@ ("D" :> "d") @@ ("E" :> "e") @@ ("F" :> "f") @@
    ("G" :> "g") @@ ("H" :> "h") @@ ("I" :> "i") @@ ("J" :> "j") @@ ("K" :> "k") @@ ("L" :> "l") @@
    ("M" :> "m") @@ ("N" :> "n") @@ ("O" :> "o") @@ ("P" :> "p") @@ ("Q" :> "q") @@ ("R" :> "r") @@
    ("S" :> "s") @@ ("T" :> "t") @@ ("U" :> "u") @@ ("V" :> "v") @@ ("W" :> "w") @@ ("X" :> "x") @@
    ("Y" :> "y") @@ ("Z" :> "z")
\* str.lower()
Lower(s) == [i \in 1..Len(s) |-> IF s[i] \in DOMAIN LowerOf THEN LowerOf[s[i]] ELSE s[i]]
\* `pattern in s`
Contains(pattern, s) ==
    \E i \in 1..(Len(s) - Len(pattern) + 1) : SubSeq(s, i, i + Len(pattern) - 1) = pattern
\* s.startswith(prefix)
StartsWith(s, prefix) == Len(s) >= Len(prefix) /\ SubSeq(s, 1, Len(prefix)) = prefix

(***************************************************************************)
(* Config (src/app/config.py).  The limits are read from the environment;  *)
(* the model runs with MAX_URL_LENGTH=32 and MAX_FACES=2.                  *)
(***************************************************************************)
MAX_URL_LENGTH == 32
MAX_FACES == 2
ALLOWED_IMAGE_TYPES == {"image/jpeg", "image/png", "image/webp", "image/gif", "image/bmp"}
ALLOWED_PIL_FORMATS == {"JPEG", "PNG", "WEBP", "GIF", "BMP"}
BLOCKED_URL_PATTERNS ==
    << <<"l", "o", "c", "a", "l", "h", "o", "s", "t">>,
       <<"1", "2", "7", ".", "0", ".", "0", ".", "1">>,
       <<"0", ".", "0", ".", "0", ".", "0">>,
       <<"1", "6", "9", ".", "2", "5", "4", ".", "1", "6", "9", ".", "2", "5", "4">>,
       <<"[", ":", ":", "1", "]">>,
       <<"1", "0", ".">>,
       <<"1", "7", "2", ".", "1", "6", ".">>,
       <<"1", "9", "2", ".", "1", "6", "8", ".">> >>
SchemeHttp == <<"h", "t", "t", "p", ":", "/", "/">>
SchemeHttps == <<"h", "t", "t", "p", "s", ":", "/", "/">>

\* a variant of validate_url_safety without line 69: the patterns and the
\* scheme are looked for in `url` itself
ValidateUrlSafetyCaseSensitive(url) ==
    IF Len(url) > MAX_URL_LENGTH
    THEN [ok |-> FALSE, msg |-> "URL too long"]
    ELSE IF \E k \in 1..Len(BLOCKED_URL_PATTERNS) : Contains(BLOCKED_URL_PATTERNS[k], url)
         THEN [ok |-> FALSE,
               msg |-> "URLs pointing to private/internal networks are not allowed"]
         ELSE IF ~(StartsWith(url, SchemeHttp) \/ StartsWith(url, SchemeHttps))
              THEN [ok |-> FALSE, msg |-> "URL must start with http:// or https://"]
              ELSE [ok |-> TRUE, msg |-> ""]

\* Config.validate_url_safety(url) -> (is_valid, error_message)
validate_url_safety(url) ==
    IF Len(url) > MAX_URL_LENGTH
    THEN [ok |-> FALSE, msg |-> "URL too long"]
    ELSE LET url_lower == Lower(url)
         IN IF \E k \in 1..Len(BLOCKED_URL_PATTERNS) :
                   Contains(BLOCKED_URL_PATTERNS[k], url_lower)
            THEN [ok |-> FALSE,
                  msg |-> "URLs pointing to private/internal networks are not allowed"]
            ELSE IF ~(StartsWith(url_lower, SchemeHttp)
                      \/ StartsWith(url_lower, SchemeHttps))
                 THEN [ok |-> FALSE, msg |-> "URL must start with http:// or https://"]
                 ELSE [ok |-> TRUE, msg |-> ""]

(***************************************************************************)
(* Optional values, floats of a request, byte strings.                     *)
(***************************************************************************)
\* Python's None and a value that is not None
None == [some |-> FALSE]
Some(x) == [some |-> TRUE, v |-> x]
\* a hat_scale of a request is a float counted in halves, FNum(3) = 1.5, or FNaN
RECURSIVE Digits(_)
Digits(n) ==
    LET d == <<"0", "1", "2", "3", "4", "5", "6", "7", "8", "9">>
    IN IF n < 10 THEN <<d[n + 1]>> ELSE Digits(n \div 10) \o <<d[(n % 10) + 1]>>
\* str(hat_scale)
StrFloat(f) ==
    IF f.nan THEN <<"n", "a", "n">>
    ELSE (IF f.v < 0 THEN <<"-">> ELSE <<>>)
         \o Digits(FAbsInt(f.v) \div 2)
         \o <<".", IF FAbsInt(f.v) % 2 = 0 THEN "0" ELSE "5">>
\* the bytes b"" and the bytes of a JPEG file that encodes `picture`
EmptyBytes == [empty |-> TRUE]
JpegBytes(picture) == [empty |-> FALSE, jpeg |-> picture]

(***************************************************************************)
(* S3Cache (src/app/s3_cache.py).  A SHA-256 digest is modelled by the     *)
(* byte string it was computed from.                                       *)
(***************************************************************************)
\* lines 58-63 and 91-97: hasher.update(x); hasher.update(str(hat_scale).encode());
\* f"processed/{h[:2]}/{h}.jpg"
KeyOfHash(x, scale) == [prefix |-> "processed", sha256 |-> x \o StrFloat(scale)]

\* generate_cache_key_from_hash(content, hat_scale); the content is one
\* opaque block of bytes
generate_cache_key_from_hash(content, scale) == KeyOfHash(<<content>>, scale)

\* str.strip('"'): leading and trailing quote characters removed
RECURSIVE StripQuotes(_)
StripQuotes(s) ==
    IF s = <<>> THEN s
    ELSE IF s[1] = "\"" THEN StripQuotes(Tail(s))
    ELSE IF s[Len(s)] = "\"" THEN StripQuotes(SubSeq(s, 1, Len(s) - 1))
    ELSE s

\* the outcome of client.head(url, follow_redirects=True) and raise_for_status():
\* a failure, or the etag and last-modified headers ("" when absent)
HeadFailed == [ok |-> FALSE]
HeadOk(etag, last_modified) == [ok |-> TRUE, etag |-> etag, last_modified |-> last_modified]

\* lines 85-89: identifier = etag or last_modified or url
Identifier(url, head) ==
    LET etag == StripQuotes(head.etag)
    IN IF etag # <<>> THEN etag
       ELSE IF head.last_modified # <<>> THEN head.last_modified
       ELSE url

\* a variant of lines 99-106 that gives up: `except Exception: return None`
CacheKeyFromUrlOrNone(url, scale, head) ==
    IF head.ok THEN Some(KeyOfHash(Identifier(url, head), scale)) ELSE None

\* generate_cache_key_from_url(url, hat_scale), given what the HEAD request met
generate_cache_key_from_url(url, scale, head) ==
    IF head.ok
    THEN Some(KeyOfHash(Identifier(url, head), scale))
    ELSE Some(KeyOfHash(url, scale))

\* what s3_client.get_object / put_object meet: success, the ClientError
\* codes NoSuchKey and AccessDenied, or another exception
S3Outcomes == {"ok", "AccessDenied", "ConnectionError"}
\* the object stored under a key, if any
Stored(objects, key) == {o \in objects : o.key = key}

\* a variant of get_cached_image without lines 132-137: other errors escape
GetCachedImageStrict(cache, key, outcome) ==
    IF ~cache.enabled
    THEN [raised |-> "none", value |-> None, contacted |-> FALSE]
    ELSE IF outcome = "ok"
         THEN [raised |-> "none", contacted |-> TRUE,
               value |-> IF Stored(cache.objects, key) = {} THEN None
                         ELSE Some((CHOOSE o \in Stored(cache.objects, key) : TRUE).body)]
         ELSE [raised |-> outcome, value |-> None, contacted |-> TRUE]

\* S3Cache.get_cached_image(cache_key)
get_cached_image(cache, key, outcome) ==
    IF ~cache.enabled
    THEN [raised |-> "none", value |-> None, contacted |-> FALSE]
    ELSE IF outcome = "ok" /\ Stored(cache.objects, key) # {}
         THEN [raised |-> "none", contacted |-> TRUE,
               value |-> Some((CHOOSE o \in Stored(cache.objects, key) : TRUE).body)]
         ELSE \* NoSuchKey, another ClientError, another exception: all return None
              [raised |-> "none", value |-> None, contacted |-> TRUE]

\* S3Cache.store_cached_image(cache_key, image_data, metadata)
store_cached_image(cache, key, image_data, outcome) ==
    IF ~cache.enabled
    THEN [raised |-> "none", value |-> FALSE, contacted |-> FALSE,
          objects |-> cache.objects]
    ELSE IF outcome = "ok"
         THEN [raised |-> "none", value |-> TRUE, contacted |-> TRUE,
               objects |-> (cache.objects \ Stored(cache.objects, key))
                            \cup {[key |-> key, body |-> image_data]}]
         ELSE [raised |-> "none", value |-> FALSE, contacted |-> TRUE,
               objects |-> cache.objects]

(***************************************************************************)
(* The world of the application: documents, remote resources, requests.    *)
(***************************************************************************)
\* the bytes of an upload or of a fetched resource, by what the handler finds
\* out about them: len(contents) <= MAX_FILE_SIZE_BYTES, whether Image.open
\* succeeds, image.format, whether the dimensions are within the limits, and
\* what detect_faces returns for the image
Doc(name, small, opens, format, fits, fs) ==
    [name |-> name, small |-> small, opens |-> opens, format |-> format,
     fits |-> fits, faces |-> fs]
NoDoc == [name |-> "none"]
FaceSound == Face(2 * Q, Q, 2 * Q + 1, 2 * Q, Q, 2 * Q, 0)
FaceTurned == Face(2 * Q, Q, 2 * Q, 2 * Q, Q, 2 * Q, 180)
FaceNoWidth == Face(2 * Q, 2 * Q, 2 * Q, 2 * Q, 0, Q + AnchorDen, -90)
PhotoOne == Doc("one", TRUE, TRUE, "JPEG", TRUE, <<FaceSound>>)
PhotoThree == Doc("three", TRUE, TRUE, "PNG", TRUE, <<FaceSound, FaceTurned, FaceSound>>)
PhotoNone == Doc("none-found", TRUE, TRUE, "JPEG", TRUE, <<>>)
PhotoNoWidth == Doc("no-width", TRUE, TRUE, "JPEG", TRUE, <<FaceNoWidth>>)
PhotoTiff == Doc("tiff", TRUE, TRUE, "TIFF", TRUE, <<FaceSound>>)
PhotoWide == Doc("wide", TRUE, TRUE, "PNG", FALSE, <<FaceSound>>)
PhotoLarge == Doc("large", FALSE, TRUE, "JPEG", TRUE, <<FaceSound>>)
Garbage == Doc("garbage", TRUE, FALSE, "none", TRUE, <<>>)

\* the outcome of client.get(url) and raise_for_status()
GetFailed(why) == [ok |-> FALSE, why |-> why]
GetOk(content_type, contents) ==
    [ok |-> TRUE, content_type |-> content_type, contents |-> contents]

UrlA == <<"h", "t", "t", "p", ":", "/", "/", "a", ".", "e", "x", "a", "m", "p", "l", "e", "/", "x", ".", "j", "p", "g">>
UrlB == <<"h", "t", "t", "p", ":", "/", "/", "b", ".", "e", "x", "a", "m", "p", "l", "e", "/", "y", ".", "j", "p", "g">>
UrlC == <<"h", "t", "t", "p", "s", ":", "/", "/", "c", ".", "e", "x", "a", "m", "p", "l", "e", "/", "z">>
UrlD == <<"H", "T", "T", "P", ":", "/", "/", "d", ".", "e", "x", "a", "m", "p", "l", "e", "/", "w">>
UrlE == <<"h", "t", "t", "p", ":", "/", "/", "e", ".", "e", "x", "a", "m", "p", "l", "e", "/">>
UrlG == <<"h", "t", "t", "p", ":", "/", "/", "g", ".", "e", "x", "a", "m", "p", "l", "e", "/">>
UrlH == <<"h", "t", "t", "p", ":", "/", "/", "h", ".", "e", "x", "a", "m", "p", "l", "e", "/">>
GoodUrls == {UrlA, UrlB, UrlC, UrlD, UrlE, UrlG, UrlH}
UrlLong == <<"h", "t", "t", "p", ":", "/", "/", "a", ".", "e", "x", "a", "m", "p", "l", "e", "/", "x", ".", "j", "p", "g", "?", "s", "i", "z", "e", "=", "l", "a", "r", "g", "e", "&", "n", "=", "1">>
BadUrls ==
    { <<"h", "t", "t", "p", ":", "/", "/", "L", "o", "c", "a", "l", "H", "o", "s", "t", "/", "x">>,
      <<"h", "t", "t", "p", ":", "/", "/", "1", "2", "7", ".", "0", ".", "0", ".", "1", "/">>,
      <<"h", "t", "t", "p", ":", "/", "/", "0", ".", "0", ".", "0", ".", "0", "/">>,
      <<"h", "t", "t", "p", ":", "/", "/", "1", "6", "9", ".", "2", "5", "4", ".", "1", "6", "9", ".", "2", "5", "4", "/">>,
      <<"h", "t", "t", "p", ":", "/", "/", "[", ":", ":", "1", "]", "/">>,
      <<"h", "t", "t", "p", ":", "/", "/", "1", "0", ".", "0", ".", "0", ".", "5", "/", "a">>,
      <<"h", "t", "t", "p", ":", "/", "/", "1", "7", "2", ".", "1", "6", ".", "0", ".", "1", "/">>,
      <<"H", "T", "T", "P", "S", ":", "/", "/", "1", "9", "2", ".", "1", "6", "8", ".", "1", ".", "1", "/">>,
      <<"f", "t", "p", ":", "/", "/", "a", ".", "e", "x", "a", "m", "p", "l", "e", "/", "x">>,
      UrlLong }

TagV1 == <<"\"", "v", "1", "\"">>
TagWeak == <<"W", "/", "\"", "v", "2", "\"">>
TagEmpty == <<"\"", "\"">>
Monday == <<"M", "o", "n">>

\* what the HEAD and the GET request to a URL meet
Remote(url) ==
    CASE url = UrlA -> [head |-> HeadOk(TagV1, <<>>), get |-> GetOk("image/jpeg", PhotoOne)]
      [] url = UrlB -> [head |-> HeadOk(TagV1, Monday), get |-> GetOk("image/png", PhotoThree)]
      [] url = UrlC -> [head |-> HeadFailed, get |-> GetOk("image/jpeg", PhotoNone)]
      [] url = UrlD -> [head |-> HeadOk(TagEmpty, Monday), get |-> GetFailed("status")]
      [] url = UrlE -> [head |-> HeadOk(TagWeak, Monday), get |-> GetOk("image/jpeg", PhotoNoWidth)]
      [] url = UrlG -> [head |-> HeadOk(<<>>, <<>>), get |-> GetOk("text/html", Garbage)]
      [] url = UrlH -> [head |-> HeadOk(<<>>, Monday), get |-> GetOk("image/jpeg", Garbage)]
      [] OTHER -> [head |-> HeadFailed, get |-> GetFailed("request")]

\* an UploadFile
Upload(content_type, contents) == [content_type |-> content_type, contents |-> contents]
Uploads ==
    {Upload("image/jpeg", PhotoOne), Upload("image/png", PhotoThree),
     Upload("image/jpeg", PhotoNone), Upload("image/jpeg", PhotoNoWidth),
     Upload("image/tiff", PhotoTiff), Upload("image/png", PhotoTiff),
     Upload("image/png", PhotoWide), Upload("image/jpeg", PhotoLarge),
     Upload("image/jpeg", Garbage)}

\* hat_scale values of requests, in halves: -0.5, 0, 0.5, 1.0, 1.5, 5.0, 5.5, nan
One == FNum(2)
RequestScales == {FNum(-1), FNum(0), FNum(1), One, FNum(3), FNum(10), FNum(11), FNaN}

GetRequest(url, scale) == [method |-> "GET", url |-> url, hat_scale |-> scale]
\* a POST with multipart/form-data fields
FormRequest(file, url, scale) ==
    [method |-> "POST", content |-> "form", file |-> file, url |-> url,
     hat_scale |-> scale]
\* a POST with an application/json body; the form parameters take their defaults
JsonRequest(body) ==
    [method |-> "POST", content |-> "json", file |-> None, url |-> None,
     hat_scale |-> One, json |-> body]
\* JSON bodies: url present or not, hat_scale a float or null
JsonBodies ==
    {[url |-> u, hat_scale |-> s] :
        u \in {None, Some(UrlA), Some(<<"x">>)},
        s \in {Some(One), Some(FNum(0)), Some(FNum(11)), Some(FNaN), None}}

Requests ==
    {GetRequest(u, s) : u \in GoodUrls, s \in RequestScales}
    \cup {GetRequest(u, s) : u \in BadUrls, s \in {One, FNum(0)}}
    \cup {FormRequest(Some(f), None, s) : f \in Uploads, s \in {One, FNum(1), FNaN}}
    \cup {FormRequest(None, Some(u), s) : u \in {UrlA, UrlB, UrlLong}, s \in {One, FNum(11)}}
    \cup {FormRequest(None, None, s) : s \in {One, FNum(0)}}
    \cup {FormRequest(Some(f), Some(u), s) :
            f \in {Upload("image/jpeg", PhotoOne)}, u \in {UrlA, UrlLong},
            s \in {One, FNum(0)}}
    \cup {JsonRequest(b) : b \in JsonBodies}

(***************************************************************************)
(* GET and POST /santa-hatify (src/app/main.py).  The two handlers run the *)
(* same steps; POST has two more in front.                                 *)
(***************************************************************************)
\* requests served one after another in a multi-request run
MaxRequests == 2

\* the locals of a handler when it is entered
EnterFrame(r) ==
    [entered |-> TRUE,
     url |-> IF r.method = "GET" THEN Some(r.url) ELSE r.url,
     file |-> IF r.method = "GET" THEN None ELSE r.file,
     hat_scale |-> Some(r.hat_scale),
     cache_key |-> None, cached_image |-> None, contents |-> NoDoc,
     faces |-> <<>>, img_bytes |-> EmptyBytes]

\* a client sends a request
Receive ==
    /\ rpc \in {"idle", "done"}
    /\ budget > 0
    /\ \E r \in pool :
          /\ request' = [n |-> request.n + 1, req |-> r]
          /\ frame' = EnterFrame(r)
    /\ budget' = budget - 1
    /\ rpc' = "guard"
    /\ response' = NoResponse
    /\ UNCHANGED <<hat_processor, s3_cache, pool, calls, detVars, procVars>>

\* the handler returns a response or raises the HTTPException of that status
Reply(status, cache_status, faces_detected, body) ==
    /\ response' = [status |-> status, X_Cache_Status |-> cache_status,
                    X_Faces_Detected |-> faces_detected, body |-> body]
    /\ rpc' = "done"
Fail(status) == Reply(status, "absent", None, EmptyBytes)
\* the handler has called something
Called(entry) == calls' = Append(calls, [n |-> request.n] @@ entry)
\* a float comparison is false for nan
FloatLe(f, k) == ~f.nan /\ f.v <= k
FloatGt(f, k) == ~f.nan /\ f.v > k
FloatGe(f, k) == ~f.nan /\ f.v >= k

\* lines 84-88 and 286-290: `if hat_processor is None: raise HTTPException(503)`
CheckProcessor ==
    /\ rpc = "guard"
    /\ IF hat_processor = "none"
       THEN Fail(503)
       ELSE rpc' = (IF request.req.method = "GET" THEN "scale" ELSE "parse")
            /\ UNCHANGED response
    /\ UNCHANGED <<hat_processor, s3_cache, pool, budget, request, frame, calls,
                   detVars, procVars>>

\* SantaHatifyURLRequest(**json_body): url an http(s) URL, hat_scale None or
\* a float with 0.01 <= hat_scale <= 5.0
JsonValid(body) ==
    /\ body.url.some
    /\ StartsWith(Lower(body.url.v), SchemeHttp) \/ StartsWith(Lower(body.url.v), SchemeHttps)
    /\ body.hat_scale.some => FloatGe(body.hat_scale.v, 1) /\ FloatLe(body.hat_scale.v, 10)
\* str(json_request.url), for URLs that are written in their normal form
HttpUrlStr(u) == u

\* lines 292-307: a JSON body replaces url, hat_scale and file
ParseBody ==
    /\ rpc = "parse"
    /\ IF request.req.content = "json"
       THEN IF JsonValid(request.req.json)
            THEN /\ frame' = [frame EXCEPT !.url = Some(HttpUrlStr(request.req.json.url.v)),
                                           !.hat_scale = request.req.json.hat_scale,
                                           !.file = None]
                 /\ rpc' = "inputs"
                 /\ UNCHANGED response
            ELSE Fail(400) /\ UNCHANGED frame
       ELSE rpc' = "inputs" /\ UNCHANGED <<frame, response>>
    /\ UNCHANGED <<hat_processor, s3_cache, pool, budget, request, calls,
                   detVars, procVars>>

\* a variant of lines 309-320 that lets a request with both inputs through
InputsRejectedNeitherOnly(file, url) == ~file.some /\ ~url.some
\* lines 309-320: neither input, or both
InputsRejected(file, url) == (~file.some /\ ~url.some) \/ (file.some /\ url.some)

\* lines 309-320: exactly one of file and url
CheckInputs ==
    /\ rpc = "inputs"
    /\ IF InputsRejected(frame.file, frame.url)
       THEN Fail(400)
       ELSE rpc' = "scale" /\ UNCHANGED response
    /\ UNCHANGED <<hat_processor, s3_cache, pool, budget, request, frame, calls,
                   detVars, procVars>>

\* lines 91 and 323: `hat_scale <= 0 or hat_scale > 5`
ScaleRejected(f) == FloatLe(f, 0) \/ FloatGt(f, 10)

\* lines 90-95 and 322-327; comparing None raises TypeError outside the try
CheckScale ==
    /\ rpc = "scale"
    /\ IF ~frame.hat_scale.some
       THEN Fail(500)
       ELSE IF ScaleRejected(frame.hat_scale.v)
            THEN Fail(400)
            ELSE rpc' = "url" /\ UNCHANGED response
    /\ UNCHANGED <<hat_processor, s3_cache, pool, budget, request, frame, calls,
                   detVars, procVars>>

\* a variant of lines 98-103 and 331-336 that ignores the verdict
UrlRejectedNever(url) == FALSE
\* lines 98-99 and 331-332: `if not is_valid`
UrlRejected(url) == ~validate_url_safety(url).ok

\* lines 97-103 and 329-336: Config.validate_url_safety(url)
ValidateUrl ==
    /\ rpc = "url"
    /\ IF frame.url.some
       THEN /\ Called([op |-> "validate_url_safety", url |-> frame.url.v,
                       result |-> validate_url_safety(frame.url.v)])
            /\ IF UrlRejected(frame.url.v)
               THEN Fail(400)
               ELSE rpc' = "key" /\ UNCHANGED response
       ELSE rpc' = "key" /\ UNCHANGED <<calls, response>>
    /\ UNCHANGED <<hat_processor, s3_cache, pool, budget, request, frame,
                   detVars, procVars>>

\* lines 107 and 343-345: the cache key of a URL, from a HEAD request
CacheKey ==
    /\ rpc = "key"
    /\ IF frame.url.some
       THEN LET key == generate_cache_key_from_url(frame.url.v, frame.hat_scale.v,
                                                   Remote(frame.url.v).head)
            IN /\ Called([op |-> "HEAD", url |-> frame.url.v,
                          hat_scale |-> frame.hat_scale.v, key |-> key])
               /\ frame' = [frame EXCEPT !.cache_key = key]
            /\ rpc' = "lookup"
       ELSE rpc' = "upload" /\ UNCHANGED <<frame, calls>>
    /\ UNCHANGED <<hat_processor, s3_cache, pool, budget, request, response,
                   detVars, procVars>>

\* a variant of lines 114, 350 and 389 that never takes the cached image
TruthyNever(bytes) == FALSE
\* `if cached_image:` -- bytes that are not empty
Truthy(bytes) == bytes.some /\ ~bytes.v.empty
\* what S3 may answer: nothing is asked of it when the cache is disabled
OutcomesOf(cache) == IF cache.enabled THEN S3Outcomes ELSE {"ok"}

\* lines 110-124, 346-360 and 386-398: look the key up; a hit is the response
CacheLookup ==
    /\ rpc = "lookup"
    /\ \E outcome \in OutcomesOf(s3_cache) :
          LET r == get_cached_image(s3_cache, frame.cache_key.v, outcome)
          IN /\ Called([op |-> "get_cached_image", key |-> frame.cache_key.v,
                        s3 |-> outcome, contacted |-> r.contacted, raised |-> r.raised,
                        value |-> r.value])
             /\ IF r.raised # "none"
                THEN Fail(500) /\ UNCHANGED frame
                ELSE /\ frame' = [frame EXCEPT !.cached_image = r.value]
                     /\ IF Truthy(r.value)
                        THEN Reply(200, "HIT", None, r.value.v)
                        ELSE /\ rpc' = (IF frame.file.some THEN "open" ELSE "fetch")
                             /\ UNCHANGED response
    /\ UNCHANGED <<hat_processor, s3_cache, pool, budget, request, detVars, procVars>>

\* lines 365-385: check and read the upload, key it by its content
ReadUpload ==
    /\ rpc = "upload"
    /\ IF frame.file.v.content_type \notin ALLOWED_IMAGE_TYPES
          \/ ~frame.file.v.contents.small
       THEN Fail(400) /\ UNCHANGED frame
       ELSE /\ frame' = [frame EXCEPT
                            !.contents = frame.file.v.contents,
                            !.cache_key = Some(generate_cache_key_from_hash(
                                                 frame.file.v.contents.name,
                                                 frame.hat_scale.v))]
            /\ rpc' = "lookup"
            /\ UNCHANGED response
    /\ UNCHANGED <<hat_processor, s3_cache, pool, budget, request, calls,
                   detVars, procVars>>

\* lines 128-169 and 400-442: fetch the image from the URL
FetchUrl ==
    /\ rpc = "fetch"
    /\ Called([op |-> "GET", url |-> frame.url.v])
    /\ LET got == Remote(frame.url.v).get
       IN IF ~got.ok
          THEN Fail(400) /\ UNCHANGED frame
          ELSE IF got.content_type \notin ALLOWED_IMAGE_TYPES \/ ~got.contents.small
               THEN Fail(400) /\ UNCHANGED frame
               ELSE /\ frame' = [frame EXCEPT !.contents = got.contents]
                    /\ rpc' = "open"
                    /\ UNCHANGED response
    /\ UNCHANGED <<hat_processor, s3_cache, pool, budget, request, detVars, procVars>>

\* lines 171-199 and 444-472: open the image, check format and dimensions;
\* an exception of Image.open becomes the 500 of lines 253-257 and 527-531
OpenImage ==
    /\ rpc = "open"
    /\ IF ~frame.contents.opens
       THEN Fail(500)
       ELSE IF frame.contents.format \notin ALLOWED_PIL_FORMATS \/ ~frame.contents.fits
            THEN Fail(400)
            ELSE rpc' = "detect" /\ UNCHANGED response
    /\ UNCHANGED <<hat_processor, s3_cache, pool, budget, request, frame, calls,
                   detVars, procVars>>

\* a variant of lines 211-212 and 484-485 that keeps every face
LimitFacesNot(fs) == fs
\* lines 211-212 and 484-485: faces[:Config.MAX_FACES]
LimitFaces(fs) == IF Len(fs) > MAX_FACES THEN SubSeq(fs, 1, MAX_FACES) ELSE fs

\* lines 201-213 and 474-486: detect the faces, 404 without any, limit them
DetectFaces ==
    /\ rpc = "detect"
    /\ Called([op |-> "detect_faces", found |-> frame.contents.faces])
    /\ IF frame.contents.faces = <<>>
       THEN Fail(404) /\ UNCHANGED frame
       ELSE /\ frame' = [frame EXCEPT !.faces = LimitFaces(frame.contents.faces)]
            /\ rpc' = "process"
            /\ UNCHANGED response
    /\ UNCHANGED <<hat_processor, s3_cache, pool, budget, request, detVars, procVars>>

\* the processor of the application: the default positioning, a 2x1 overlay
AppHat == NewImage("RGBA", 2, 1, Red)
\* hat_processor.process_image(image, faces, hat_scale) raises: int() of a nan
\* product, or a resize to a size below 1
ProcessImageRaises(fs, scale) ==
    \/ scale.nan
    \/ \E k \in 1..Len(fs) :
          LET hat_width == HatWidth(ReferenceWidth(DefaultPositioning, fs[k]),
                                    DefaultPositioning, scale.v * AnchorDen)
          IN ResizeRaises(hat_width, HatHeight(hat_width, AppHat))

\* lines 215-228 and 488-502: process the image and encode the result as JPEG
Process ==
    /\ rpc = "process"
    /\ Called([op |-> "process_image", faces |-> frame.faces,
               hat_scale |-> frame.hat_scale.v])
    /\ IF ProcessImageRaises(frame.faces, frame.hat_scale.v)
       THEN Fail(500) /\ UNCHANGED frame
       ELSE /\ frame' = [frame EXCEPT !.img_bytes =
                            JpegBytes([of |-> frame.contents.name, faces |-> frame.faces,
                                       hat_scale |-> frame.hat_scale.v])]
            /\ rpc' = "store"
            /\ UNCHANGED response
    /\ UNCHANGED <<hat_processor, s3_cache, pool, budget, request, detVars, procVars>>

\* lines 230-236 and 504-510: `if cache_key: await s3_cache.store_cached_image(...)`
Store ==
    /\ rpc = "store"
    /\ IF frame.cache_key.some
       THEN \E outcome \in OutcomesOf(s3_cache) :
               LET r == store_cached_image(s3_cache, frame.cache_key.v,
                                           frame.img_bytes, outcome)
               IN /\ Called([op |-> "store_cached_image", key |-> frame.cache_key.v,
                             image_data |-> frame.img_bytes, s3 |-> outcome,
                             contacted |-> r.contacted, raised |-> r.raised,
                             value |-> r.value])
                  /\ s3_cache' = [s3_cache EXCEPT !.objects = r.objects]
                  /\ IF r.raised # "none"
                     THEN Fail(500)
                     ELSE rpc' = "respond" /\ UNCHANGED response
       ELSE rpc' = "respond" /\ UNCHANGED <<s3_cache, calls, response>>
    /\ UNCHANGED <<hat_processor, pool, budget, request, frame, detVars, procVars>>

\* lines 241-249 and 515-523: the processed image with its headers
Respond ==
    /\ rpc = "respond"
    /\ Reply(200, "MISS", Some(Len(frame.faces)), frame.img_bytes)
    /\ UNCHANGED <<hat_processor, s3_cache, pool, budget, request, frame, calls,
                   detVars, procVars>>

NextServe ==
    \/ Receive \/ CheckProcessor \/ ParseBody \/ CheckInputs \/ CheckScale
    \/ ValidateUrl \/ CacheKey \/ CacheLookup \/ ReadUpload \/ FetchUrl
    \/ OpenImage \/ DetectFaces \/ Process \/ Store \/ Respond

\* the bucket when the application starts: empty, or holding an empty object
\* that something else wrote under a key of the cache
\* or holding what an earlier run stored for a URL and for an upload
InitialBuckets ==
    LET earlier == JpegBytes([of |-> "one", faces |-> <<FaceSound>>, hat_scale |-> One])
    IN {{},
        {[key |-> KeyOfHash(<<"v", "1">>, One), body |-> EmptyBytes]},
        {[key |-> KeyOfHash(<<"v", "1">>, One), body |-> earlier],
         [key |-> generate_cache_key_from_hash("one", One), body |-> earlier]}}

ServeIdle ==
    /\ request = NoRequest
    /\ rpc = "idle"
    /\ frame = NoFrame
    /\ calls = <<>>
    /\ response = NoResponse
    /\ DetIdle
    /\ ProcIdle

\* the application after start-up, about to serve one request of any kind
InitServe ==
    /\ hat_processor \in {"configured", "none"}
    /\ s3_cache \in [enabled : BOOLEAN, objects : InitialBuckets]
    /\ pool = Requests
    /\ budget = 1
    /\ ServeIdle

SpecServe == InitServe /\ [][NextServe]_vars

\* the requests of a multi-request run
CacheRequests ==
    {GetRequest(UrlA, One), GetRequest(UrlB, One), GetRequest(UrlA, FNum(3)),
     GetRequest(UrlC, One), GetRequest(UrlC, FNum(3)), GetRequest(UrlD, One), GetRequest(UrlD, FNum(1)),
     GetRequest(UrlE, One), GetRequest(UrlG, One), GetRequest(UrlG, FNum(10)),
     FormRequest(None, Some(UrlB), One),
     FormRequest(Some(Upload("image/jpeg", PhotoOne)), None, One),
     JsonRequest([url |-> Some(UrlA), hat_scale |-> Some(One)])}

\* the application after start-up with an empty bucket, about to serve
\* several requests for URLs and uploads
InitServeMany ==
    /\ hat_processor = "configured"
    /\ s3_cache \in [enabled : BOOLEAN, objects : {{}}]
    /\ pool = CacheRequests
    /\ budget = MaxRequests
    /\ ServeIdle

SpecServeMany == InitServeMany /\ [][NextServe]_vars

(***************************************************************************)
(* Properties of detect_faces, checked under SpecDetect.                   *)
(***************************************************************************)
Finite(pt) == ~pt.x.nan /\ ~pt.y.nan
Sq(n) == n * n
\* the measurement of landmark set k has been appended to `faces`
Measured(k) == k \in 1..Len(detFaces)
\* the squared Euclidean distance of two finite pixel points
SqDist(a, b) == Sq(b.x.v - a.x.v) + Sq(b.y.v - a.y.v)

\* C2: for every face, eye_distance is the Euclidean distance between the
\* left-eye-outer and right-eye-outer pixel points:
\* eye_distance^2 = dx^2 + dy^2, also when the eyes differ in y.
C2_EyeDistanceIsEuclidean ==
    \A k \in 1..Len(detFaces) :
        LET l == PixelPoint(detLandmarks[k].left_eye, detImage)
            r == PixelPoint(detLandmarks[k].right_eye, detImage)
        IN Finite(l) /\ Finite(r)
           => Sq(detFaces[k].eye_distance.v) = SqDist(l, r)

\* C3: for every face, forehead_width is the Euclidean distance between the
\* forehead-left and forehead-right pixel points, also when they differ in y.
C3_ForeheadWidthIsEuclidean ==
    \A k \in 1..Len(detFaces) :
        LET l == PixelPoint(detLandmarks[k].forehead_left, detImage)
            r == PixelPoint(detLandmarks[k].forehead_right, detImage)
        IN Finite(l) /\ Finite(r)
           => Sq(detFaces[k].forehead_width.v) = SqDist(l, r)

\* a landmark set that breaks the input contract: a length other than the
\* scheme's, or a required landmark with a coordinate that is not finite
Malformed(lms) ==
    \/ lms.count # SchemeCount
    \/ \E pt \in {lms.forehead_top, lms.forehead_left, lms.forehead_right,
                  lms.chin, lms.left_eye, lms.right_eye} : ~Finite(pt)
\* the loop has dealt with landmark set k
Handled(k) == detIdx > k \/ (detPc = "raised" /\ detIdx = k)

\* C7: measurement extraction fails with InputContractViolation, and returns
\* no measurement, whenever the landmark list's length differs from the
\* scheme's count or a required landmark has a non-finite coordinate.
C7_MalformedLandmarksRejected ==
    \A k \in 1..Len(detLandmarks) :
        Malformed(detLandmarks[k]) /\ Handled(k)
        => detErr = "InputContractViolation" /\ ~Measured(k)

\* right_eye_pixel - left_eye_pixel of landmark set k, for finite eyes
EyesFinite(k) ==
    /\ Finite(PixelPoint(detLandmarks[k].left_eye, detImage))
    /\ Finite(PixelPoint(detLandmarks[k].right_eye, detImage))
EyeDx(k) == PixelPoint(detLandmarks[k].right_eye, detImage).x.v
            - PixelPoint(detLandmarks[k].left_eye, detImage).x.v
EyeDy(k) == PixelPoint(detLandmarks[k].right_eye, detImage).y.v
            - PixelPoint(detLandmarks[k].left_eye, detImage).y.v
\* the two outer eye landmarks have the same normalized y
SameEyeY(k) == detLandmarks[k].left_eye.y = detLandmarks[k].right_eye.y

\* C15 as claimed: when the left-eye-outer and right-eye-outer landmarks have
\* the same y, the tilt angle is exactly 0.0, whatever their x are.
C15_LevelEyesGiveZero ==
    \A k \in 1..Len(detFaces) :
        EyesFinite(k) /\ SameEyeY(k) => detFaces[k].angle = Angle(0, 0)

\* C15 as amended: when the two eye landmarks have the same y, the tilt angle
\* is exactly 0.0 if the right eye's x is not smaller than the left eye's, and
\* exactly 180.0 if it is smaller.
C15_LevelEyesGiveZeroOrHalfTurn ==
    \A k \in 1..Len(detFaces) :
        EyesFinite(k) /\ SameEyeY(k)
        => /\ EyeDx(k) >= 0 => detFaces[k].angle = Angle(0, 0)
           /\ EyeDx(k) < 0 => detFaces[k].angle = Angle(180, 180)

\* C15's case: a measured face with level eyes, the right eye left of the left
C15_Witness ==
    /\ detPc = "returned"
    /\ \E k \in 1..Len(detFaces) : EyesFinite(k) /\ SameEyeY(k) /\ EyeDx(k) < 0

\* an angle enclosed in [lo, hi] (exact when lo = hi, else strictly inside)
StrictlyPositive(a) == IF a.lo = a.hi THEN a.lo > 0 ELSE a.lo >= 0
StrictlyNegative(a) == IF a.lo = a.hi THEN a.hi < 0 ELSE a.hi <= 0
InHalfOpenTurn(a) == IF a.lo = a.hi THEN -180 < a.lo /\ a.lo <= 180
                     ELSE -180 <= a.lo /\ a.hi <= 180

\* C16: the tilt angle is positive whenever the right eye's pixel y is greater
\* than the left eye's, negative whenever it is smaller, and always lies in
\* (-180, 180] degrees.
C16_TiltSignedByEyeOffset ==
    \A k \in 1..Len(detFaces) :
        EyesFinite(k)
        => /\ EyeDy(k) > 0 => StrictlyPositive(detFaces[k].angle)
           /\ EyeDy(k) < 0 => StrictlyNegative(detFaces[k].angle)
           /\ InHalfOpenTurn(detFaces[k].angle)

\* C16's case: a measured face whose right eye is lower and left of the left eye
C16_Witness ==
    /\ detPc = "returned"
    /\ \E k \in 1..Len(detFaces) : EyesFinite(k) /\ EyeDy(k) > 0 /\ EyeDx(k) < 0

(***************************************************************************)
(* Properties of the processor, checked under SpecProcess.                 *)
(***************************************************************************)
\* the image `result` is bound to
Result == heap[resultRef]
\* -tilt_angle, the turn given to the resized bitmap
Turn == -locals.face_data.angle
\* r is the integer nearest to n / d (either way at a half)
Nearest(r, n, d) == 2 * FAbsInt(r * d - n) <= d
\* r is n / d cut toward zero: same sign, |r| <= |n / d| < |r| + 1
Truncated(r, n, d) ==
    /\ r * n >= 0
    /\ FAbsInt(r) * d <= FAbsInt(n)
    /\ FAbsInt(n) < (FAbsInt(r) + 1) * d
\* reference_width * width_multiplier * hat_scale, counted in 1/Q^3 pixel
WidthProduct == locals.reference_width * positioning.width_multiplier * hat_scale

\* C1: anchor_on_rotated is the place, inside the rotated bitmap, of the point
\* that was at anchor_on_resized: the anchor goes through the rotation the
\* bitmap goes through (by -tilt_angle about the centre, canvas expanded).
C1_AnchorFollowsRotation ==
    locals.placed
    => locals.rotated_anchor
         = RotatePoint(locals.anchor, locals.resized.w, locals.resized.h, Turn)

\* C4 as claimed: the overlay is resized to target_width = the product rounded
\* to the nearest integer and target_height = target_width * asset_height /
\* asset_width rounded to the nearest integer.
C4_SizeRoundedToNearest ==
    locals.called
    => /\ Nearest(locals.hat_width, WidthProduct, Q * Q * Q)
       /\ Nearest(locals.hat_height, locals.hat_width * hat_image.h, hat_image.w)

\* C4 as amended: target_width is the product cut toward zero, target_height
\* is target_width * asset_height / asset_width cut toward zero, and an
\* overlay that is resized is resized to exactly this size.
C4_SizeTruncated ==
    locals.called
    => /\ Truncated(locals.hat_width, WidthProduct, Q * Q * Q)
       /\ Truncated(locals.hat_height, locals.hat_width * hat_image.h, hat_image.w)
       /\ locals.placed => /\ locals.resized.w = locals.hat_width
                           /\ locals.resized.h = locals.hat_height

\* C4's case: an overlay was resized whose width product lies above a half
C4_Witness ==
    /\ locals.placed
    /\ 2 * (WidthProduct % (Q * Q * Q)) > Q * Q * Q

\* C5 as claimed: the placement offset is target - anchor_on_rotated rounded
\* to the nearest integer pixel, for positive and negative differences alike.
C5_OffsetRoundedToNearest ==
    locals.placed
    => /\ Nearest(locals.hat_x, locals.target.x - locals.rotated_anchor.x, Q)
       /\ Nearest(locals.hat_y, locals.target.y - locals.rotated_anchor.y, Q)

\* C5 as amended: the placement offset is target - anchor_on_rotated cut
\* toward zero, for positive and negative differences alike (a difference
\* strictly between -1 and 1 gives 0).
C5_OffsetTruncated ==
    locals.placed
    => /\ Truncated(locals.hat_x, locals.target.x - locals.rotated_anchor.x, Q)
       /\ Truncated(locals.hat_y, locals.target.y - locals.rotated_anchor.y, Q)

\* C5's case: no tilt, a negative difference in (-1, -0.5) placed at offset 0
C5_Witness ==
    /\ locals.placed
    /\ locals.face_data.angle = 0
    /\ LET d == locals.target.x - locals.rotated_anchor.x
       IN -Q < d /\ 2 * d < -Q /\ locals.hat_x = 0

\* C6: a measurement whose reference width is 0 (or any input with
\* target_width <= 0) gives a zero-area overlay of width 0 and no exception.
C6_ZeroWidthNoException ==
    locals.called /\ (locals.reference_width = 0 \/ locals.hat_width <= 0)
    => pc # "raised" /\ locals.placed /\ locals.resized.w = 0

\* C8 as claimed: process_image(image, []) returns the input converted to
\* RGBA, for an input of any mode.
C8_EmptyReturnsRGBA ==
    pc = "returned" /\ faces = <<>>
    => Result.mode = "RGBA" /\ Result = ConvertRGBA(inputImage)

\* C8 as amended: process_image(image, []) returns the input image as it is,
\* in the input's own mode, pixel for pixel (RGBA only for an RGBA input).
C8_EmptyReturnsOriginal ==
    pc = "returned" /\ faces = <<>>
    => Result.mode = inputImage.mode /\ Result = inputImage

\* C8's case: an empty faces list and an input that is not RGBA
C8_Witness == pc = "returned" /\ faces = <<>> /\ inputImage.mode = "RGB"

\* C9 as claimed: for every faces list, the empty one included, process_image
\* leaves the caller's image as it was and its result is an object other
\* than the input.
C9_ResultIsFresh ==
    pc \in {"loop", "returned", "raised"}
    => heap[imageRef] = inputImage /\ resultRef # imageRef

\* C9 as amended: process_image never changes the caller's image; for a
\* non-empty faces list every image `result` is bound to is an object other
\* than the input; for the empty list the result is the input object itself.
C9_FreshUnlessEmpty ==
    pc \in {"loop", "returned", "raised"}
    => /\ heap[imageRef] = inputImage
       /\ faces # <<>> => resultRef # imageRef
       /\ faces = <<>> => resultRef = imageRef

\* C9's case: a call with faces on an input that is already RGBA has returned
C9_Witness == pc = "returned" /\ faces # <<>> /\ inputImage.mode = "RGBA"

\* C10: for a non-empty faces list the image accumulated after every
\* per-face step, and the final result, is RGBA and of the input's size.
C10_AccumulatedIsRGBAOfInputSize ==
    pc \in {"loop", "returned", "raised"} /\ faces # <<>>
    => /\ Result.mode = "RGBA"
       /\ Result.w = inputImage.w
       /\ Result.h = inputImage.h

\* C10's case: two faces composited onto an input that was not RGBA
C10_Witness ==
    pc = "returned" /\ Len(faces) >= 2 /\ inputImage.mode = "L" /\ resultRef = Len(faces) + 2

\* the width line 84 computes for this face when width_multiplier is doubled
WidthAtDoubleMultiplier ==
    HatWidth(locals.reference_width,
             [positioning EXCEPT !.width_multiplier = 2 * @], hat_scale)
\* the width line 84 computes for this face when hat_scale is doubled
WidthAtDoubleScale == HatWidth(locals.reference_width, positioning, 2 * hat_scale)

\* C17: the resized overlay width computed with width_multiplier 2m differs
\* from twice the width computed with m by at most 1 pixel, and so does the
\* width computed with hat_scale doubled.
C17_DoublingDoublesWidth ==
    locals.called
    => /\ FAbsInt(WidthAtDoubleMultiplier - 2 * locals.hat_width) <= 1
       /\ FAbsInt(WidthAtDoubleScale - 2 * locals.hat_width) <= 1
\* a face whose width is at least 2 and whose doubled width is odd
C17_Witness ==
    /\ locals.called
    /\ locals.hat_width >= 2
    /\ WidthAtDoubleMultiplier = 2 * locals.hat_width + 1
    /\ WidthAtDoubleScale = 2 * locals.hat_width + 1

\* the last add_hat_to_face call composited its overlay and returned
Composited == locals.placed /\ err = "none"
\* the image the last add_hat_to_face call was given
Previous == heap[resultRef - 1]
\* the canvas pixels under the rotated overlay placed at (hat_x, hat_y)
Footprint ==
    {p \in PixelsOf(Previous.w, Previous.h) :
        <<p[1] - locals.hat_x, p[2] - locals.hat_y>>
            \in PixelsOf(locals.rotated.w, locals.rotated.h)}

\* C14: for every placement offset, negative or beyond the canvas, compositing
\* raises no error, the result keeps the canvas dimensions, pixels outside the
\* overlay's footprint are unchanged, and an overlay fully outside the canvas
\* leaves every pixel unchanged.
C14_ClippedSilently ==
    /\ locals.placed => err = "none"
    /\ Composited
       => /\ Result.w = Previous.w /\ Result.h = Previous.h
          /\ \A p \in PixelsOf(Previous.w, Previous.h) \ Footprint :
                Result.px[p] = Previous.px[p]
          /\ Footprint = {} => Result.px = Previous.px
\* an overlay placed at a negative offset, partly on the canvas, that changed
\* the pixels under it and left pixels beside it
C14_Witness ==
    /\ Composited
    /\ locals.hat_x < 0 \/ locals.hat_y < 0
    /\ Footprint # {}
    /\ Footprint # PixelsOf(Previous.w, Previous.h)
    /\ \A p \in Footprint : Result.px[p] # Previous.px[p]

\* the values each enum field of the positioning config recognises
WidthReferences == {"eye_distance", "forehead_width"}
HorizontalCenters == {"midpoint_between_eyes", "forehead_top"}
VerticalAnchors == {"forehead_top"}
\* some enum field of the processor's config holds an unrecognised value
UnrecognisedEnum ==
    \/ positioning.width_reference \notin WidthReferences
    \/ positioning.horizontal_center \notin HorizontalCenters
    \/ positioning.vertical_anchor \notin VerticalAnchors

\* C18: with an unrecognised width_reference, horizontal_center or
\* vertical_anchor, add_hat_to_face does not fail and uses the default of that
\* field (eye_distance, eye_midpoint.x, forehead_top.y); the recognised values
\* forehead_width and forehead_top select forehead_width and forehead_top.x.
C18_UnknownEnumDefaults ==
    locals.called
    => /\ UnrecognisedEnum => locals.placed /\ err = "none"
       /\ positioning.width_reference \notin WidthReferences
            => locals.reference_width = locals.face_data.eye_distance
       /\ positioning.width_reference = "forehead_width"
            => locals.reference_width = locals.face_data.forehead_width
       /\ locals.placed
          => /\ positioning.horizontal_center \notin HorizontalCenters
                  => locals.target.x = locals.face_data.eye_midpoint.x
             /\ positioning.horizontal_center = "forehead_top"
                  => locals.target.x = locals.face_data.forehead_top.x
             /\ locals.target.y = locals.face_data.forehead_top.y
                                    + positioning.vertical_offset_px * Q

\* C19: a call that resolves an unrecognised enum value to its default
\* surfaces a non-fatal warning to its caller, and a call whose enum values
\* are all recognised surfaces none.
C19_FallbackWarns ==
    locals.called => (UnrecognisedEnum <=> warnings # <<>>)

\* the rotated overlay of a face and the offset it is pasted at
OverlayOf(face) ==
    LET c == AddHatToFaceCall(hat_image, positioning, ConvertRGBA(inputImage),
                              face, hat_scale).locals
    IN [bitmap |-> Rotate(Resize(hat_image, c.hat_width, c.hat_height), -face.angle),
        x |-> c.hat_x, y |-> c.hat_y]
\* the overlay pixel of a face that lies on canvas pixel p, transparent if none
OverlayAt(face, p) ==
    LET o == OverlayOf(face)
        q == <<p[1] - o.x, p[2] - o.y>>
    IN IF q \in PixelsOf(o.bitmap.w, o.bitmap.h) THEN o.bitmap.px[q] ELSE <<0, 0, 0, 0>>
\* the faces of the list whose overlay is fully opaque on canvas pixel p
OpaqueCover(p) == {i \in 1..Len(faces) : OverlayAt(faces[i], p)[4] = 255}
Last(S) == CHOOSE i \in S : \A j \in S : j <= i
Canvas == PixelsOf(inputImage.w, inputImage.h)

\* C11: process_image composites the overlays in the order of the faces list:
\* iteration i composites the overlay of face i onto the result of the faces
\* before it, so at a pixel covered by fully opaque overlay pixels of several
\* faces the returned colour is that of the last such face in the list.
C11_ListOrderIsPaintOrder ==
    /\ Composited => locals.face_data = faces[faceIdx - 1] /\ resultRef = faceIdx + 1
    /\ pc = "returned" /\ faces # <<>>
       => \A p \in Canvas :
             OpaqueCover(p) # {}
             => Result.px[p] = OverlayAt(faces[Last(OpaqueCover(p))], p)
\* a returned image with a pixel under opaque overlay pixels of two faces
\* that differ in colour
C11_Witness ==
    /\ pc = "returned"
    /\ \E p \in Canvas : \E i, j \in OpaqueCover(p) :
          i < j /\ OverlayAt(faces[i], p) # OverlayAt(faces[j], p)

\* what process_image returns for the two faces of the list in the other order
Swapped == ProcessImage(hat_image, positioning, inputImage,
                        <<faces[2], faces[1]>>, hat_scale)
\* process_image returned for a list [A, B] of two faces
ReturnedPair == pc = "returned" /\ Len(faces) = 2
\* the two overlays share a canvas pixel
OverlaysOverlap ==
    \E p \in Canvas :
        /\ <<p[1] - OverlayOf(faces[1]).x, p[2] - OverlayOf(faces[1]).y>>
              \in DOMAIN OverlayOf(faces[1]).bitmap.px
        /\ <<p[1] - OverlayOf(faces[2]).x, p[2] - OverlayOf(faces[2]).y>>
              \in DOMAIN OverlayOf(faces[2]).bitmap.px
\* the two overlays share a canvas pixel where both are fully opaque and of
\* different colours
OverlaysDisagree ==
    \E p \in Canvas :
        /\ OverlayAt(faces[1], p)[4] = 255
        /\ OverlayAt(faces[2], p)[4] = 255
        /\ OverlayAt(faces[1], p) # OverlayAt(faces[2], p)

\* C12 as claimed: for two faces A and B whose placed overlays overlap on the
\* canvas, process_image(image, [A, B]) and process_image(image, [B, A]) are
\* different images.
C12_OrderAlwaysMatters ==
    ReturnedPair /\ faces[1] # faces[2] /\ OverlaysOverlap => Swapped.result # Result
\* C12, amended: for two faces whose overlays overlap at a canvas pixel where
\* both are fully opaque and of different colours, process_image(image, [A, B])
\* and process_image(image, [B, A]) both return and return different images.
C12_OrderMattersWhereOverlaysDisagree ==
    ReturnedPair /\ OverlaysDisagree
    => Swapped.raised = "none" /\ Swapped.result # Result
\* a returned pair of faces whose opaque overlays disagree at a shared pixel
C12_Witness == ReturnedPair /\ OverlaysDisagree /\ Swapped.raised = "none"

\* out is, within one level per band, fg over bg for straight-alpha pixels:
\* alpha = fa + ba (1 - fa), colour = (fc fa + bc ba (1 - fa)) / alpha
IsOver(out, fg, bg) ==
    LET alpha255 == 255 * fg[4] + bg[4] * (255 - fg[4])
        colour(i) == 255 * fg[i] * fg[4] + bg[i] * bg[4] * (255 - fg[4])
    IN /\ FAbsInt(255 * out[4] - alpha255) <= 255
       /\ \A i \in 1..3 : FAbsInt(out[i] * alpha255 - colour(i)) <= alpha255

\* C13: each per-face composition is the 'over' operator applied once with the
\* positioned overlay as foreground: at every pixel and for every foreground
\* alpha, out = fg + bg x (1 - fg.alpha), fg being the rotated overlay's own
\* colour and alpha at that pixel.
C13_OverOperatorOnce ==
    Composited
    => \A p \in PixelsOf(Previous.w, Previous.h) :
          IsOver(Result.px[p], OverlayAt(locals.face_data, p), Previous.px[p])

(***************************************************************************)
(* Properties of a processor over several calls, checked under SpecCalls.  *)
(***************************************************************************)
\* C20: process_image is deterministic and free of hidden state: two calls on
\* a processor with identical image, faces and hat_scale, whatever calls lie
\* between them, return the same output, and no call changes the processor's
\* positioning config or overlay asset.
C20_CallsAreIndependent ==
    /\ \A i, j \in 1..Len(history) :
          history[i].arg = history[j].arg
          => /\ history[i].raised = history[j].raised
             /\ history[i].result = history[j].result
    /\ \A i \in 1..Len(history) :
          /\ history[i].hat_image = hat_image
          /\ history[i].positioning = positioning
\* two equal calls that placed an overlay, with a different call between them
C20_Witness ==
    /\ Len(history) >= 3
    /\ history[1].arg = history[3].arg
    /\ history[2].arg # history[1].arg
    /\ history[2].arg.faces # <<>>
    /\ history[1].raised = "none"
    /\ history[1].result # ConvertRGBA(history[1].arg.image)

(***************************************************************************)
(* Properties of the request handlers, checked under SpecServe and         *)
(* SpecServeMany.                                                          *)
(***************************************************************************)
\* what the handler of the current request has called so far
Mine == SelectSeq(calls, LAMBDA e : e.n = request.n)
OpsCalled == {Mine[i].op : i \in 1..Len(Mine)}
\* cache access, network access, detection and processing
WorkOps == {"HEAD", "get_cached_image", "GET", "detect_faces", "process_image",
            "store_cached_image"}
Answered == rpc = "done"
\* the current request is a form POST with neither or with both inputs
NeitherOrBoth ==
    /\ request.req.method = "POST"
    /\ request.req.content = "form"
    /\ request.req.file.some = request.req.url.some

\* C21 as claimed: POST /santa-hatify with neither file nor url, or with both,
\* is answered 400, and no cache access, fetch, face detection or processing
\* takes place for it.
C21_NeitherOrBothGets400 ==
    NeitherOrBoth
    => /\ Answered => response.status = 400
       /\ OpsCalled \cap WorkOps = {}
\* C21, amended: when the hat processor is configured, a POST with neither or
\* both inputs is answered 400; when it is not, the request is answered 503
\* before the inputs are looked at.  In both cases nothing is called, and a
\* POST handler only does any work with exactly one of file and url.
C21_NeitherOrBothGets400WhenConfigured ==
    /\ NeitherOrBoth
       => /\ Answered
             => response.status = (IF hat_processor = "configured" THEN 400 ELSE 503)
          /\ OpsCalled = {}
    /\ request.req.method = "POST" /\ OpsCalled \cap WorkOps # {}
       => frame.file.some # frame.url.some
\* a POST with both a file and a url, refused with 400
C21_Witness ==
    /\ NeitherOrBoth
    /\ request.req.file.some
    /\ hat_processor = "configured"
    /\ Answered
    /\ response.status = 400

\* the hat_scale the client sent: in the JSON body, or as a parameter
RequestScale ==
    IF request.req.method = "none" THEN None
    ELSE IF request.req.method = "POST" /\ request.req.content = "json"
         THEN request.req.json.hat_scale
         ELSE Some(request.req.hat_scale)
\* a float in (0, 5]
InRange(f) == ~f.nan /\ f.v > 0 /\ f.v <= 10
\* a float that is <= 0 or > 5
OutOfRange(f) == ~f.nan /\ (f.v <= 0 \/ f.v > 10)

\* C22: on GET and POST, every request with hat_scale <= 0 or hat_scale > 5 is
\* answered 400, and the hat processor is only ever invoked with a hat_scale
\* in (0, 5].
C22_ScaleChecked ==
    /\ RequestScale.some /\ OutOfRange(RequestScale.v) /\ Answered
       => response.status = 400
    /\ \A i \in 1..Len(calls) :
          calls[i].op = "process_image" => InRange(calls[i].hat_scale)

\* the get_cached_image calls of the current request
Lookups == SelectSeq(Mine, LAMBDA e : e.op = "get_cached_image")
AfterLookupOps == {"detect_faces", "process_image", "store_cached_image"}
\* the response is the cache hit for these bytes
IsHit(bytes) ==
    /\ response.status = 200
    /\ response.body = bytes
    /\ response.X_Cache_Status = "HIT"

\* C23 as claimed: when get_cached_image returns bytes for the request's key,
\* the response body is exactly those bytes with X-Cache-Status HIT, and
\* neither face detection, process_image nor store_cached_image is invoked.
C23_HitServedFromCache ==
    \A i \in 1..Len(Lookups) :
        Lookups[i].value.some
        => /\ Answered => IsHit(Lookups[i].value.v)
           /\ OpsCalled \cap AfterLookupOps = {}
\* C23, amended: when get_cached_image returns bytes that are not empty, the
\* response body is exactly those bytes with X-Cache-Status HIT, and neither
\* face detection, process_image nor store_cached_image is invoked; empty
\* bytes count as a miss.
C23_NonEmptyHitServedFromCache ==
    \A i \in 1..Len(Lookups) :
        /\ Lookups[i].value.some /\ ~Lookups[i].value.v.empty
           => /\ Answered /\ IsHit(Lookups[i].value.v)
              /\ OpsCalled \cap AfterLookupOps = {}
        /\ Lookups[i].value.some /\ Lookups[i].value.v.empty /\ Answered
           => response.X_Cache_Status # "HIT"
\* a request answered from the cache, for an upload
C23_Witness ==
    /\ Answered
    /\ Len(Lookups) = 1
    /\ Lookups[1].value.some
    /\ frame.file.some
    /\ IsHit(Lookups[1].value.v)

\* the calls of the current request with this name
CallsOf(op) == SelectSeq(Mine, LAMBDA e : e.op = op)
\* the current request missed the cache under a key, its image was valid and
\* at least one face was detected in it
MissWithFaces ==
    /\ Len(Lookups) > 0
    /\ ~Truthy(Lookups[Len(Lookups)].value)
    /\ Len(CallsOf("detect_faces")) > 0
    /\ CallsOf("detect_faces")[1].found # <<>>

\* C24: on a cache miss with a cache key, a valid image and at least one face,
\* process_image is called exactly once, store_cached_image is then called
\* exactly once with the key that was looked up and the bytes of the response,
\* and the response carries X-Cache-Status MISS; a request that ends in 400,
\* 404 or 500 stores nothing.
C24_MissProcessesAndStores ==
    /\ MissWithFaces /\ Answered
       => /\ Len(CallsOf("process_image")) = 1
          /\ Len(CallsOf("store_cached_image")) = 1
          /\ CallsOf("store_cached_image")[1].key = Lookups[Len(Lookups)].key
          /\ CallsOf("store_cached_image")[1].image_data = response.body
          /\ response.X_Cache_Status = "MISS"
    /\ Answered /\ response.status \in {400, 404, 500}
       => "store_cached_image" \notin OpsCalled

Min(a, b) == IF a <= b THEN a ELSE b
\* what detect_faces returned to the current request
Found == CallsOf("detect_faces")[1].found
\* s is the first n elements of t
IsPrefix(s, t, n) == Len(s) = n /\ n <= Len(t) /\ \A k \in 1..n : s[k] = t[k]

\* C25: the list passed to process_image is the prefix of the detection result
\* of length min(n, MAX_FACES), in detection order, and X-Faces-Detected is
\* the length of that list, so it never exceeds MAX_FACES.
C25_FacesLimited ==
    /\ \A i \in 1..Len(CallsOf("process_image")) :
          IsPrefix(CallsOf("process_image")[i].faces, Found, Min(Len(Found), MAX_FACES))
    /\ Answered /\ response.X_Faces_Detected.some
       => /\ Len(CallsOf("process_image")) = 1
          /\ response.X_Faces_Detected.v = Len(CallsOf("process_image")[1].faces)
          /\ response.X_Faces_Detected.v <= MAX_FACES
\* three faces detected, two processed and reported
C25_Witness ==
    /\ Answered
    /\ response.X_Faces_Detected = Some(MAX_FACES)
    /\ Len(Found) > MAX_FACES

\* every evaluation of Config.validate_url_safety so far
Validations == SelectSeq(calls, LAMBDA e : e.op = "validate_url_safety")
\* two characters that differ at most in letter case
SameLetter(c, d) ==
    \/ c = d
    \/ c \in DOMAIN LowerOf /\ LowerOf[c] = d
    \/ d \in DOMAIN LowerOf /\ LowerOf[d] = c
\* word occurs in url at position i, in any letter case
OccursAt(word, url, i) ==
    /\ i + Len(word) - 1 <= Len(url)
    /\ \A j \in 1..Len(word) : SameLetter(url[i + j - 1], word[j])
\* the URL names localhost, a loopback, metadata or private address
PointsInside(url) ==
    \E k \in 1..Len(BLOCKED_URL_PATTERNS) :
       \E i \in 1..Len(url) : OccursAt(BLOCKED_URL_PATTERNS[k], url, i)
TooLong(url) == Len(url) > MAX_URL_LENGTH
\* the URL starts with http:// or https:// as written
SchemeAsWritten(url) ==
    \/ \A j \in 1..Len(SchemeHttp) : j <= Len(url) /\ url[j] = SchemeHttp[j]
    \/ \A j \in 1..Len(SchemeHttps) : j <= Len(url) /\ url[j] = SchemeHttps[j]
\* the URL starts with http:// or https:// in any letter case
SchemeAnyCase(url) == OccursAt(SchemeHttp, url, 1) \/ OccursAt(SchemeHttps, url, 1)
Refused(r) == ~r.ok /\ r.msg # ""
Accepted(r) == r.ok /\ r.msg = ""

\* C26: validate_url_safety returns (False, non-empty message) for every URL
\* that is too long, points inside in any letter case, or does not start
\* with http:// or https://, and (True, "") only when none of these holds.
C26_UrlSafety ==
    \A i \in 1..Len(Validations) :
       LET url == Validations[i].url
           r == Validations[i].result
           bad == TooLong(url) \/ PointsInside(url) \/ ~SchemeAsWritten(url)
       IN /\ bad => Refused(r)
          /\ r.ok => ~bad /\ Accepted(r)
\* C26 amended: the same with the scheme compared in any letter case, as
\* the blocked addresses are.
C26_UrlSafetyAnyCaseScheme ==
    \A i \in 1..Len(Validations) :
       LET url == Validations[i].url
           r == Validations[i].result
           bad == TooLong(url) \/ PointsInside(url) \/ ~SchemeAnyCase(url)
       IN /\ bad => Refused(r)
          /\ r.ok => ~bad /\ Accepted(r)
\* a mixed-case private address was refused
C26_Witness ==
    \E i \in 1..Len(Validations) :
       /\ Refused(Validations[i].result)
       /\ PointsInside(Validations[i].url)
       /\ ~Contains(BLOCKED_URL_PATTERNS[1], Validations[i].url)
       /\ OccursAt(BLOCKED_URL_PATTERNS[1], Validations[i].url, 8)

\* every call of generate_cache_key_from_url so far, with what it returned
KeyCalls == SelectSeq(calls, LAMBDA e : e.op = "HEAD")
Quote == "\""
\* id is what remains of etag once the quote characters at both ends are gone
IsStripped(id, etag) ==
    /\ id = <<>> \/ (id[1] # Quote /\ id[Len(id)] # Quote)
    /\ \E a \in 0..Len(etag) :
          /\ a + Len(id) <= Len(etag)
          /\ SubSeq(etag, a + 1, a + Len(id)) = id
          /\ \A k \in 1..Len(etag) : (k <= a \/ k > a + Len(id)) => etag[k] = Quote
\* id is the identifier the claim names for this URL and these headers
IsIdentifierOf(id, url, head) ==
    IF ~IsStripped(<<>>, head.etag) THEN IsStripped(id, head.etag)
    ELSE IF head.last_modified # <<>> THEN id = head.last_modified
    ELSE id = url
\* the identifiers a call could have hashed
Candidates(e) ==
    {e.url} \cup (IF Remote(e.url).head.ok
                  THEN {Remote(e.url).head.last_modified}
                       \cup {SubSeq(Remote(e.url).head.etag, a, b) :
                               a \in 1..Len(Remote(e.url).head.etag),
                               b \in 1..Len(Remote(e.url).head.etag)}
                  ELSE {})

Gets == SelectSeq(calls, LAMBDA e : e.op = "get_cached_image")
Puts == SelectSeq(calls, LAMBDA e : e.op = "store_cached_image")
\* what the two methods have returned so far is what the claim allows
CacheCallsQuiet ==
    /\ \A i \in 1..Len(Gets) :
          /\ Gets[i].raised = "none"
          /\ ~s3_cache.enabled => ~Gets[i].contacted /\ Gets[i].value = None
          /\ Gets[i].s3 # "ok" => Gets[i].value = None
          /\ Puts = <<>> /\ Stored(s3_cache.objects, Gets[i].key) = {}
             => Gets[i].value = None
    /\ \A i \in 1..Len(Puts) :
          /\ Puts[i].raised = "none"
          /\ ~s3_cache.enabled => ~Puts[i].contacted /\ Puts[i].value = FALSE
          /\ Puts[i].s3 # "ok" => Puts[i].value = FALSE
\* the step that looks the cache up or stores into it ends the request only
\* with the cached image, never with an error
CacheStepNeverFails ==
    rpc \in {"lookup", "store"} /\ rpc' = "done"
    => response'.status = 200 /\ response'.X_Cache_Status = "HIT"

\* C28: get_cached_image and store_cached_image never raise; with the cache
\* disabled they return None / False without contacting S3; on a missing key
\* or any S3 error they return None / False; a cache failure never turns a
\* request into an error.
C28_CacheNeverRaises == []CacheCallsQuiet /\ [][CacheStepNeverFails]_vars
\* S3 refused the lookup and the store, and the request was still answered
\* with the processed image
C28_Witness ==
    /\ Answered
    /\ response.status = 200 /\ response.X_Cache_Status = "MISS"
    /\ \E i \in 1..Len(Gets) : Gets[i].s3 = "AccessDenied" /\ Gets[i].contacted
    /\ \E i \in 1..Len(Puts) : Puts[i].s3 = "ConnectionError" /\ Puts[i].value = FALSE

\* call k of the log is an outbound request to the URL of its request
Outbound(k) == calls[k].op \in {"HEAD", "GET"}
\* an earlier call of the same request in which validate_url_safety accepted
\* the URL of call k
AcceptedBefore(k) ==
    \E j \in 1..(k - 1) :
       /\ calls[j].n = calls[k].n
       /\ calls[j].op = "validate_url_safety"
       /\ calls[j].url = calls[k].url
       /\ calls[j].result.ok
\* validate_url_safety has refused the URL of the current request
UrlRefused ==
    \E i \in 1..Len(Mine) :
       Mine[i].op = "validate_url_safety" /\ ~Mine[i].result.ok

\* C29: no HEAD or GET request goes to the user's URL unless
\* validate_url_safety accepted that URL earlier in the same request; a URL
\* it refuses is answered with 400 without network access, cache access or
\* processing.
C29_NoRequestBeforeValidation ==
    /\ \A k \in 1..Len(calls) : Outbound(k) => AcceptedBefore(k)
    /\ UrlRefused => /\ OpsCalled \cap WorkOps = {}
                     /\ rpc = "done"
                     /\ response.status = 400
\* the URL of a POST was refused and the request answered with 400
C29_Witness ==
    /\ UrlRefused
    /\ request.req.method = "POST"
    /\ response.status = 400
    /\ OpsCalled \cap WorkOps = {}

\* the URL whose key request n asked for
KeyCallOf(n) == SelectSeq(KeyCalls, LAMBDA e : e.n = n)
\* store number i put an image into the bucket for a URL other than url
StoredForOther(i, url) ==
    /\ Puts[i].value
    /\ KeyCallOf(Puts[i].n) # <<>>
    /\ KeyCallOf(Puts[i].n)[1].url # url

\* C30: two requests for different URLs with the same hat_scale never obtain
\* the same cache key, and a cache hit for a URL never returns an image that
\* was processed and stored for a different URL.
C30_KeyIdentifiesUrl ==
    /\ \A i, j \in 1..Len(KeyCalls) :
          KeyCalls[i].url # KeyCalls[j].url
          /\ KeyCalls[i].hat_scale = KeyCalls[j].hat_scale
          => KeyCalls[i].key # KeyCalls[j].key
    /\ Answered /\ frame.url.some /\ response.X_Cache_Status = "HIT"
       => \A i \in 1..Len(Puts) :
             StoredForOther(i, frame.url.v) => Puts[i].image_data # response.body

====
